---- MODULE Spec2Model ----
(***************************************************************************)
(* Model of script/app.js, the Hue bulb replacer: the page state, the      *)
(* fetch-lights handler, the start-replacement handler (one action per     *)
(* remote call, each followed by the synchronous code up to the next       *)
(* call), the bridge the calls act on, and the pure helpers                *)
(* addLightReference and itemAddressExists.                                *)
(***************************************************************************)
EXTENDS Integers, Sequences, FiniteSets, TLC

VARIABLES
    \* ---- the bridge (remote state the calls read and write)
    bLights,        \* V1 lights: id -> [name, startup]
    bV2Lights,      \* V2 light resources: sequence of [id, id_v1, name]
    bGroups,        \* V1 groups: sequence (index = group id) of light lists
    bScenes,        \* V1 scenes: sequence of [lights, lightstates]
    bRules,         \* V1 rules: sequence of [conditions, actions]
    bInstances,     \* V2 behavior instances: sequence of configuration trees
    \* ---- the page (app.js globals and the controls it drives)
    allV1Lights, v1ToV2IdMap, selectedOldLightV1Id, selectedNewLightV1Id,
    altRenameChecked, startDisabled, controlsDisabled, startBtnText,
    apiV1BaseUrl, apiV2BaseUrl,     \* the base URLs ('' until a fetch builds them)
    step2Shown,     \* step 1 is hidden and the selection step shown
    fetchDisabled,  \* fetchLightsBtn.disabled
    bridgeIp, apiUser,  \* what the two inputs of step 1 hold, trimmed
    clicked,        \* <<bridgeIp, apiUser>> at the last accepted click on Fetch Lights
    sent,           \* the requests of the fetch since that click: base URL and key header
    \* ---- the running handler
    pc,             \* the call the handler is about to make
    loc,            \* the start handler's local variables
    trace,          \* the remote calls and sleeps, in order, since the click on
                    \* Fetch Lights that the handlers' present state goes back to
    log,            \* the log box
    console,        \* what log() passed on to console.error and console.warn
    inFlight,       \* the requests sent to the bridge and not yet answered
    \* ---- the environment
    faultsLeft,     \* how many more times something may go wrong: a call fails,
                    \* an answer is not what it should be, Start is clicked too early
    warnsLeft,      \* how many more writes the bridge may answer with a 2xx error envelope
    runNo,          \* page loads so far
    prevRun,        \* <<old, new>> of the run of the previous page load
    \* ---- the reference scanner on its own
    scanPc, scanOld, scanNew, tree0, tree1, ret1, tree2, ret2

vars == <<bLights, bV2Lights, bGroups, bScenes, bRules, bInstances,
          allV1Lights, v1ToV2IdMap, selectedOldLightV1Id, selectedNewLightV1Id,
          altRenameChecked, startDisabled, controlsDisabled, startBtnText,
          apiV1BaseUrl, apiV2BaseUrl, step2Shown, fetchDisabled,
          bridgeIp, apiUser, clicked, sent,
          pc, loc, trace, log, console, inFlight, faultsLeft, warnsLeft, runNo, prevRun,
          scanPc, scanOld, scanNew, tree0, tree1, ret1, tree2, ret2>>

bridgeVars == <<bLights, bV2Lights, bGroups, bScenes, bRules, bInstances>>
pageVars == <<allV1Lights, v1ToV2IdMap, selectedOldLightV1Id, selectedNewLightV1Id,
              altRenameChecked, startDisabled, controlsDisabled, startBtnText,
              apiV1BaseUrl, apiV2BaseUrl, step2Shown, fetchDisabled>>
scanVars == <<scanPc, scanOld, scanNew, tree0, tree1, ret1, tree2, ret2>>
credVars == <<bridgeIp, apiUser, clicked, sent>>

\* ---- bounds
MaxFailures == 2    \* calls the bridge may fail in one behaviour
MaxRuns == 2        \* page loads in the re-run specification
MaxLen == 3         \* length of the sequences the scanner is started on
MaxWarnings == 2    \* writes answered with an error envelope in one behaviour

\* ---- JavaScript values
Undefined == "<undefined>"      \* undefined, and a property that is absent
Null == [null |-> TRUE]         \* null (allV1Lights, v1ToV2IdMap)
ToText(x) == IF x = Undefined THEN "undefined" ELSE x   \* String(x)

\* ------------------------------------------------------------------------
\* JSON trees: a tagged node is a string, an object or an array.  An object
\* keeps its rid and rtype properties (Undefined when absent) and, in kids,
\* the values of its other properties in key order; an array keeps its items.
Str(s) == [t |-> "str", v |-> s, rid |-> Undefined, rtype |-> Undefined, kids |-> <<>>]
Obj(rid, rtype, kids) == [t |-> "obj", v |-> Undefined, rid |-> rid, rtype |-> rtype, kids |-> kids]
Arr(items) == [t |-> "arr", v |-> Undefined, rid |-> Undefined, rtype |-> Undefined, kids |-> items]
LightRef(rid) == Obj(rid, "light", <<>>)

MutIsLightRefOfAnyType(item, rid) == item.t = "obj" /\ item.rid = rid

\* typeof item === 'object' && item !== null && item.rid === rid && item.rtype === 'light'
IsLightRef(item, rid) == item.t = "obj" /\ item.rid = rid /\ item.rtype = "light"

MutNewLightExistsNever(items, newLightRid) == FALSE

\* obj.some(existingItem => ... existingItem.rid === newLightRid && existingItem.rtype === 'light')
NewLightExists(items, newLightRid) ==
    \E k \in 1..Len(items) : IsLightRef(items[k], newLightRid)

RECURSIVE addLightReference(_, _, _)
RECURSIVE ScanArray(_, _, _, _, _)
RECURSIVE ScanProps(_, _, _, _, _)

\* The for loop over an array (obj.length is read again on every round, so a
\* pushed element is visited too); items is the array so far, i the index.
ScanArray(items, i, modified, oldLightRid, newLightRid) ==
    IF i > Len(items) THEN [obj |-> Arr(items), modified |-> modified]
    ELSE LET item == items[i] IN
         IF IsLightRef(item, oldLightRid)
         THEN IF ~NewLightExists(items, newLightRid)
              THEN ScanArray(Append(items, LightRef(newLightRid)), i + 1, TRUE,
                             oldLightRid, newLightRid)
              ELSE ScanArray(items, i + 1, modified, oldLightRid, newLightRid)
         ELSE IF item.t \in {"obj", "arr"}
              THEN LET r == addLightReference(item, oldLightRid, newLightRid) IN
                   ScanArray([items EXCEPT ![i] = r.obj], i + 1,
                             modified \/ r.modified, oldLightRid, newLightRid)
              ELSE ScanArray(items, i + 1, modified, oldLightRid, newLightRid)

\* The for-in loop over an object's own properties: only object and array
\* values are searched (rid and rtype are strings here).
ScanProps(o, i, modified, oldLightRid, newLightRid) ==
    IF i > Len(o.kids) THEN [obj |-> o, modified |-> modified]
    ELSE LET value == o.kids[i] IN
         IF value.t \in {"obj", "arr"}
         THEN LET r == addLightReference(value, oldLightRid, newLightRid) IN
              ScanProps([o EXCEPT !.kids[i] = r.obj], i + 1,
                        modified \/ r.modified, oldLightRid, newLightRid)
         ELSE ScanProps(o, i + 1, modified, oldLightRid, newLightRid)

\* addLightReference(obj, oldLightRid, newLightRid): the tree after the call
\* (the code changes it in place) and the value returned.
addLightReference(obj, oldLightRid, newLightRid) ==
    IF obj.t = "arr" THEN ScanArray(obj.kids, 1, FALSE, oldLightRid, newLightRid)
    ELSE IF obj.t = "obj" THEN ScanProps(obj, 1, FALSE, oldLightRid, newLightRid)
    ELSE [obj |-> obj, modified |-> FALSE]

\* JSON.stringify(configuration).includes(text): the serialised tree holds text
\* iff one of its strings does (no string of the model is part of another).
RECURSIVE ContainsText(_, _)
ContainsText(tree, text) ==
    \/ tree.t = "str" /\ tree.v = text
    \/ tree.t = "obj" /\ (tree.rid = text \/ tree.rtype = text)
    \/ \E k \in 1..Len(tree.kids) : ContainsText(tree.kids[k], text)

\* ------------------------------------------------------------------------
\* The trees the scanner is started on.
GUIDs == {"guidA", "guidB", "guidC"}

RECURSIVE SeqsUpTo(_, _)
SeqsUpTo(S, n) ==
    IF n = 0 THEN {<<>>}
    ELSE LET shorter == SeqsUpTo(S, n - 1) IN
         shorter \cup {Append(s, x) : s \in {q \in shorter : Len(q) = n - 1}, x \in S}

ScanLeaves == {LightRef(g) : g \in GUIDs} \cup {Obj("guidA", "room", <<>>)}
FlatArrays == {Arr(s) : s \in SeqsUpTo(ScanLeaves, MaxLen)}
ShortArrays == {Arr(s) : s \in SeqsUpTo(ScanLeaves, MaxLen - 1)}
TinyArrays == {Arr(s) : s \in SeqsUpTo({LightRef(g) : g \in GUIDs}, MaxLen - 2)}
ScanTrees ==
    FlatArrays
    \* two sibling sequences under one object
    \cup {Obj(Undefined, Undefined, <<a, b>>) : a \in ShortArrays, b \in ShortArrays}
    \* three sibling sequences, one of them a level deeper
    \cup {Obj(Undefined, Undefined, <<a, Str("x"), Arr(<<b, Obj(Undefined, "room", <<c>>)>>)>>) :
            a \in TinyArrays, b \in TinyArrays, c \in TinyArrays}
    \* a sequence nested in a sequence, after a reference
    \cup {Arr(<<LightRef(g), a>>) : g \in GUIDs, a \in ShortArrays}
    \* a reference object that carries a further property
    \cup {Arr(<<Obj(g, "light", <<a>>)>>) : g \in GUIDs, a \in ShortArrays}

\* ------------------------------------------------------------------------
\* What the bridge holds when the page is loaded.
LightIds == {"5", "7", "9"}

\* A name is the sequence of its parts: "Lamp (old)" is <<"Lamp", "(old)">>.
InitLights ==
    [i \in LightIds |->
        IF i = "5" THEN [name |-> <<"Lamp">>, startup |-> "safety"]
        ELSE IF i = "7" THEN [name |-> <<"Lamp2">>, startup |-> Undefined]
        ELSE [name |-> <<"Desk">>, startup |-> "powerfail"]]

\* An address or a back-reference path is the sequence of its parts:
\* "/lights/5/state/on" is <<"lights", "5", "state", "on">>; no address is <<>>.
V2Light(guid, v1) == [id |-> guid, id_v1 |-> <<"lights", v1>>, name |-> InitLights[v1].name]
BaseV2 == <<V2Light("guidA", "5"), V2Light("guidC", "7"), V2Light("guidB", "9")>>
V2Sets ==
    { BaseV2,
      BaseV2 \o <<[id |-> "guidD", id_v1 |-> <<"lights", "57">>, name |-> <<"Spot">>],
                  [id |-> "guidE", id_v1 |-> <<>>, name |-> <<"Strip">>]>>,
      <<V2Light("guidA", "5"), V2Light("guidB", "9")>>,
      <<V2Light("guidB", "9")>> }

BaseGroups == << <<"5", "9">>, <<"9">> >>
GroupSets ==
    { BaseGroups,
      << >>,
      << <<"5", "7">> >>,
      << <<"5">>, <<"9", "5">> >>,
      << <<"7">>, <<"7", "9", "5">> >> }

LightStates(s5, s7, s9) ==
    [i \in LightIds |-> IF i = "5" THEN s5 ELSE IF i = "7" THEN s7 ELSE s9]
Scene(lights, lightstates) == [lights |-> lights, lightstates |-> lightstates]
BaseScenes == << Scene(<<"5">>, LightStates("on", Undefined, Undefined)) >>
SceneSets ==
    { BaseScenes,
      << >>,
      << Scene(<<"5", "7">>, LightStates("on", "dim", Undefined)),
         Scene(<<"9">>, LightStates(Undefined, Undefined, "on")) >>,
      << Scene(<<"9">>, LightStates("dim", Undefined, "on")) >>,
      << Scene(<<"9", "5">>, LightStates(Undefined, Undefined, Undefined)) >>,
      << Scene(<<"5", "9">>, LightStates("on", Undefined, "dim")),
         Scene(<<"5">>, LightStates("dim", Undefined, Undefined)) >> }

\* A condition or an action: its address and, in rest, all its other fields.
Item(address, rest) == [address |-> address, rest |-> rest]
Rule(conditions, actions) == [conditions |-> conditions, actions |-> actions]
OnOf(id) == <<"lights", id, "state", "on">>
BriOf(id) == <<"lights", id, "state", "bri">>
StateOf(id) == <<"lights", id, "state">>
BaseRules == << Rule(<<Item(OnOf("5"), "eq")>>, <<Item(StateOf("5"), "on")>>) >>
RuleSets ==
    { BaseRules,
      << >>,
      \* two conditions on one address of the old light
      << Rule(<<Item(OnOf("5"), "eq"), Item(OnOf("5"), "dx")>>, <<>>) >>,
      \* the new light is there already
      << Rule(<<Item(OnOf("5"), "eq"), Item(OnOf("7"), "eq")>>,
              <<Item(StateOf("7"), "on"), Item(StateOf("5"), "on")>>) >>,
      << Rule(<<Item(OnOf("5"), "eq"), Item(BriOf("7"), "gt"), Item(BriOf("5"), "gt")>>,
              <<Item(<<"groups", "1", "action">>, "on")>>) >>,
      \* no conditions; an action of each light
      << Rule(<<>>, <<Item(StateOf("5"), "on"), Item(StateOf("9"), "off")>>) >>,
      \* other resources, a longer id, no trailing part, no address
      << Rule(<<Item(<<"sensors", "5", "state">>, "dx"), Item(<<"lights", "57", "state">>, "eq")>>,
              <<Item(<<"lights", "5">>, "on"), Item(<<>>, "on")>>),
         Rule(<<Item(<<"sensors", "2", "state">>, "dx")>>, <<Item(StateOf("5"), "off")>>) >>,
      << Rule(<<Item(OnOf("7"), "eq")>>, <<Item(StateOf("7"), "on"), Item(StateOf("7"), "bri")>>) >> }

Config(sequences) == Obj(Undefined, Undefined, sequences)
BaseInstances == << Config(<<Arr(<<LightRef("guidA"), LightRef("guidB")>>)>>) >>
InstanceSets ==
    { BaseInstances,
      << >>,
      << Config(<<Arr(<<LightRef("guidA"), LightRef("guidC")>>)>>),
         Config(<<Arr(<<LightRef("guidB")>>)>>) >>,
      \* the old light in two sibling sequences, one nested, and twice in one
      << Config(<<Arr(<<LightRef("guidA")>>), Str("x"),
                  Arr(<<Obj(Undefined, "room", <<Arr(<<LightRef("guidB"), LightRef("guidA"),
                                                       LightRef("guidA")>>)>>)>>)>>) >>,
      \* the old GUID as a plain string and under another resource type
      << Config(<<Str("guidA"), Arr(<<Obj("guidA", "room", <<>>), LightRef("guidB")>>)>>),
         Config(<<Arr(<<LightRef("guidC"), LightRef("guidA")>>), Arr(<<LightRef("guidA")>>)>>) >>,
      << Config(<<Arr(<<LightRef("guidC")>>)>>) >>,
      \* a reference without rid, and the text "undefined"
      << Config(<<Arr(<<Obj(Undefined, "light", <<>>), LightRef("guidA")>>), Str("undefined")>>) >>,
      \* a reference to the old light that carries a sequence of its own
      << Config(<<Arr(<<Obj("guidA", "light", <<Arr(<<LightRef("guidA"), LightRef("guidB")>>)>>)>>)>>) >> }

\* One bridge per choice: the base bridge with one collection varied.
Bridge(v2, groups, scenes, rules, instances) ==
    [v2 |-> v2, groups |-> groups, scenes |-> scenes, rules |-> rules, instances |-> instances]
Bridges ==
    {Bridge(x, BaseGroups, BaseScenes, BaseRules, BaseInstances) : x \in V2Sets}
    \cup {Bridge(BaseV2, x, BaseScenes, BaseRules, BaseInstances) : x \in GroupSets}
    \cup {Bridge(BaseV2, BaseGroups, x, BaseRules, BaseInstances) : x \in SceneSets}
    \cup {Bridge(BaseV2, BaseGroups, BaseScenes, x, BaseInstances) : x \in RuleSets}
    \cup {Bridge(BaseV2, BaseGroups, BaseScenes, BaseRules, x) : x \in InstanceSets}

\* ------------------------------------------------------------------------
\* The start handler.  A context c is what the handler's code changes while it
\* runs from one remote call to the next: the call it stops at (pc), its local
\* variables, the calls and sleeps made, and the log box.
NoLoc ==
    [oldLightV2Id |-> Undefined, newLightV2Id |-> Undefined, oldStartupConfig |-> Undefined,
     originalOldLightName |-> <<>>, currentNewLightName |-> <<>>, useAltRename |-> FALSE,
     oldBulbTargetName |-> <<>>, newBulbTargetName |-> <<>>,
     groupsWithOldLight |-> <<>>, gk |-> 0, currentLights |-> <<>>,
     scenesData |-> 0, si |-> 0, scenesWithOldLight |-> <<>>, mi |-> 0,
     allRules |-> <<>>, ri |-> 0, updatePayload |-> <<>>, updatedRulesCount |-> 0,
     allBehaviorInstances |-> <<>>, ii |-> 0, modifiedConfig |-> Str(""),
     updatedInstanceCount |-> 0]

Ctx == [pc |-> pc, loc |-> loc, trace |-> trace, log |-> log, console |-> console]

\* apiRequest(url, method, body): the call as made, with the body sent (PUT) or
\* received (GET) and whether it returned (ok) or threw.
Call(c, op, res, id, body, ok) ==
    [c EXCEPT !.trace = Append(@, [op |-> op, res |-> res, id |-> id, body |-> body, ok |-> ok])]
\* await sleep(ms)
Sleep(c, ms) ==
    [c EXCEPT !.trace = Append(@, [op |-> "sleep", res |-> "", id |-> ms, body |-> <<>>, ok |-> TRUE])]
\* log(message, type); n is the number the message reports, if any
Log(c, type, text, n) ==
    [c EXCEPT !.log = Append(@, [type |-> type, text |-> text, n |-> n]),
              !.console = IF type \in {"error", "warning"}
                          THEN Append(@, [type |-> type, text |-> text, n |-> n]) ELSE @]
Goto(c, label) == [c EXCEPT !.pc = label]

\* apiRequest on a 2xx JSON answer that carries an error envelope (V1: an array
\* whose first element has an error; V2: a non-empty errors array): a warning
\* is logged and the body is returned.
EnvelopeWarning(c, api, answer) ==
    IF answer # "envelope" THEN c
    ELSE IF api = "V1" THEN Log(c, "warning", "API V1 Warning", 0)
         ELSE Log(c, "warning", "API V2 Warning", 0)

\* The outer catch and finally: the run stops here.
Fatal(c) ==
    Goto(Log(Log(c, "error", "critical error", 0), "error", "process stopped", 0), "finished")

\* The completion summary, then finally.
Summary(c) ==
    LET c1 == Log(Log(c, "info", "----", 0), "success", "replacement process complete", 0)
        c2 == Log(c1, "info", "summary: updated instances", c1.loc.updatedInstanceCount)
        c3 == Log(c2, "info", "summary: processed rules", c2.loc.updatedRulesCount)
        c4 == Log(c3, "warning", "please verify", 0)
    IN Goto(c4, "finished")

\* Step 6: the startup configuration of the new bulb.
StartupStep(c) ==
    LET c1 == Log(c, "info", "step: startup config", 0) IN
    IF c1.loc.oldStartupConfig # Undefined
    THEN Goto(c1, "startupPut")
    ELSE Summary(Log(c1, "info", "skipping startup config", 0))

MutStartupErrorUncaught(c) == Fatal(c)

\* catch (startupError)
OnStartupError(c) == Summary(Log(c, "error", "startup config failed", 0))

AfterStartupPut(c, ok) ==
    IF ok THEN Summary(Log(c, "success", "startup config applied", 0))
    ELSE OnStartupError(c)

\* Step 5: rename the new bulb.
AfterRenameNewV2(c, ok) ==
    LET c1 == IF ok THEN Log(c, "success", "V2 rename new ok", 0)
                    ELSE Log(c, "error", "V2 rename new failed", 0)
    IN StartupStep(Sleep(c1, 250))

MutRenameNewV2NotGuarded(c, ok) ==
    LET c1 == IF ok THEN Log(c, "success", "V1 rename new ok", 0)
                    ELSE Log(c, "error", "V1 rename new failed", 0)
    IN Goto(Sleep(c1, 100), "renameNewV2")

AfterRenameNewV1(c, ok) ==
    LET c1 == IF ok THEN Log(c, "success", "V1 rename new ok", 0)
                    ELSE Log(c, "error", "V1 rename new failed", 0)
        c2 == Sleep(c1, 100)
    IN IF c2.loc.newLightV2Id # Undefined
       THEN Goto(c2, "renameNewV2")
       ELSE StartupStep(Sleep(Log(c2, "warning", "V2 rename new skipped", 0), 250))

RenameNewStep(c) ==
    Goto(Log(Sleep(c, 250), "info", "step: renaming new bulb", 0), "renameNewV1")

\* Step 4: rename the old bulb.
AfterRenameOldV2(c, ok) ==
    LET c1 == IF ok THEN Log(c, "success", "V2 rename old ok", 0)
                    ELSE Log(c, "error", "V2 rename old failed", 0)
    IN RenameNewStep(c1)

MutRenameOldV1ErrorUncaught(c, ok) ==
    IF ok
    THEN LET c2 == Sleep(Log(c, "success", "V1 rename old ok", 0), 100) IN
         IF c2.loc.oldLightV2Id # Undefined
         THEN Goto(c2, "renameOldV2")
         ELSE RenameNewStep(Log(c2, "warning", "V2 rename old skipped", 0))
    ELSE Fatal(c)

AfterRenameOldV1(c, ok) ==
    LET c1 == IF ok THEN Log(c, "success", "V1 rename old ok", 0)
                    ELSE Log(c, "error", "V1 rename old failed", 0)
        c2 == Sleep(c1, 100)
    IN IF c2.loc.oldLightV2Id # Undefined
       THEN Goto(c2, "renameOldV2")
       ELSE RenameNewStep(Log(c2, "warning", "V2 rename old skipped", 0))

RenameOldStep(c) ==
    LET c1 == Log(c, "info", "step: renaming old bulb", 0) IN
    IF c1.loc.oldBulbTargetName # c1.loc.originalOldLightName
    THEN Goto(c1, "renameOldV1")
    ELSE RenameNewStep(Log(c1, "info", "skipping rename of old bulb", 0))

\* The loop over allBehaviorInstances, from instance i on, up to the next call.
RECURSIVE InstanceLoop(_, _)
InstanceLoop(c, i) ==
    IF i > Len(c.loc.allBehaviorInstances)
    THEN RenameOldStep(Log(c, "info", "finished behavior instances", c.loc.updatedInstanceCount))
    ELSE IF ContainsText(c.loc.allBehaviorInstances[i].configuration, ToText(c.loc.oldLightV2Id))
         THEN Goto([Log(c, "info", "found potential reference", 0) EXCEPT !.loc.ii = i],
                   "instanceGet")
         ELSE InstanceLoop(c, i + 1)

MutInstanceErrorUncaught(c) == Fatal(c)

\* catch (updateError), then the sleep after the try
OnInstanceError(c) ==
    InstanceLoop(Sleep(Log(c, "error", "instance update failed", 0), 300), c.loc.ii + 1)

AfterInstancePut(c, ok) ==
    IF ok
    THEN InstanceLoop(Sleep([Log(c, "success", "instance updated", 0)
                                EXCEPT !.loc.updatedInstanceCount = @ + 1], 300),
                      c.loc.ii + 1)
    ELSE OnInstanceError(c)

\* configuration is the detail's configuration (ok) as fetched.
AfterInstanceGet(c, ok, configuration) ==
    IF ok
    THEN LET r == addLightReference(configuration, c.loc.oldLightV2Id, c.loc.newLightV2Id) IN
         IF r.modified
         THEN Goto([Log(c, "info", "configuration modified", 0)
                       EXCEPT !.loc.modifiedConfig = r.obj], "instancePut")
         ELSE InstanceLoop(Sleep(Log(c, "info", "no modification needed", 0), 300),
                           c.loc.ii + 1)
    ELSE OnInstanceError(c)

\* After the fetch of the behavior instances (an empty list when it failed).
AfterInstancesFetch(c, ok, data) ==
    IF ok
    THEN InstanceLoop([Log(c, "info", "fetched behavior instances", Len(data))
                          EXCEPT !.loc.allBehaviorInstances = data], 1)
    ELSE InstanceLoop(Log(c, "error", "error fetching behavior instances", 0), 1)

\* ------------------------------------------------------------------------
\* Rules.  address.startsWith(prefix + '/'): the address has the prefix's parts
\* and at least one more.
LightAddressPrefix(id) == <<"lights", id>>
StartsWith(address, prefix) ==
    Len(address) > Len(prefix) /\ SubSeq(address, 1, Len(prefix)) = prefix
\* newLightAddressPrefix + address.substring(oldLightAddressPrefix.length)
NewAddress(address, oldPrefix, newPrefix) ==
    newPrefix \o SubSeq(address, Len(oldPrefix) + 1, Len(address))

MutItemAddressNeverExists(itemsArray, newAddress) == FALSE

\* itemAddressExists(itemsArray, newAddress)
itemAddressExists(itemsArray, newAddress) ==
    \E k \in 1..Len(itemsArray) : itemsArray[k].address = newAddress

MutDedupAgainstModified(original, modified) == modified

\* The list the dedup check is made against: rule.conditions (rule.actions),
\* not modifiedConditions (modifiedActions).
DedupList(original, modified) == original

MutMigrateItemsInFront(original, i, modified, oldPrefix, newPrefix) ==
    LET under == {k \in 1..Len(original) : StartsWith(original[k].address, oldPrefix)} IN
    IF under = {} THEN original
    ELSE LET k == CHOOSE k \in under : TRUE IN
         <<[original[k] EXCEPT !.address = NewAddress(@, oldPrefix, newPrefix)]>> \o original

\* rule.conditions.forEach(...) (rule.actions.forEach(...)): modified is the
\* deep copy so far, i the index in the original list.
RECURSIVE MigrateItems(_, _, _, _, _)
MigrateItems(original, i, modified, oldPrefix, newPrefix) ==
    IF i > Len(original) THEN modified
    ELSE LET item == original[i] IN
         IF item.address # <<>> /\ StartsWith(item.address, oldPrefix)
         THEN LET newAddress == NewAddress(item.address, oldPrefix, newPrefix) IN
              IF ~itemAddressExists(DedupList(original, modified), newAddress)
              THEN MigrateItems(original, i + 1,
                                Append(modified, [item EXCEPT !.address = newAddress]),
                                oldPrefix, newPrefix)
              ELSE MigrateItems(original, i + 1, modified, oldPrefix, newPrefix)
         ELSE MigrateItems(original, i + 1, modified, oldPrefix, newPrefix)

MutRuleUpdateSendsBothArrays(rule, old, new) ==
    LET modifiedConditions == MigrateItems(rule.conditions, 1, rule.conditions,
                                           LightAddressPrefix(old), LightAddressPrefix(new))
        modifiedActions == MigrateItems(rule.actions, 1, rule.actions,
                                        LightAddressPrefix(old), LightAddressPrefix(new))
    IN [needsUpdate |-> Len(modifiedConditions) > Len(rule.conditions)
                          \/ Len(modifiedActions) > Len(rule.actions),
        hasConditions |-> TRUE, conditions |-> modifiedConditions,
        hasActions |-> TRUE, actions |-> modifiedActions]

\* One round of the loop over allRules up to "if (needsUpdate)": the update
\* payload, with the arrays it includes.
RuleUpdate(rule, old, new) ==
    LET modifiedConditions == MigrateItems(rule.conditions, 1, rule.conditions,
                                           LightAddressPrefix(old), LightAddressPrefix(new))
        modifiedActions == MigrateItems(rule.actions, 1, rule.actions,
                                        LightAddressPrefix(old), LightAddressPrefix(new))
    IN [needsUpdate |-> Len(modifiedConditions) > Len(rule.conditions)
                          \/ Len(modifiedActions) > Len(rule.actions),
        hasConditions |-> Len(modifiedConditions) > 0, conditions |-> modifiedConditions,
        hasActions |-> Len(modifiedActions) > 0, actions |-> modifiedActions]

\* The loop over allRules, from rule i on, up to the next call.
RECURSIVE RuleLoop(_, _, _, _)
RuleLoop(c, i, old, new) ==
    IF i > Len(c.loc.allRules)
    THEN Goto(Log(Log(c, "info", "finished rules", c.loc.updatedRulesCount),
                  "info", "step: behavior instances", 0), "instances")
    ELSE LET u == RuleUpdate(c.loc.allRules[i], old, new) IN
         IF u.needsUpdate
         THEN IF u.hasConditions \/ u.hasActions
              THEN Goto([Log(c, "info", "rule requires update", 0)
                            EXCEPT !.loc.ri = i, !.loc.updatePayload = u], "rulePut")
              ELSE RuleLoop(Sleep(Log(c, "warning", "rule update skipped", 0), 300),
                            i + 1, old, new)
         ELSE RuleLoop(c, i + 1, old, new)

MutRuleErrorUncaught(c, old, new) == Fatal(c)

\* catch (updateError), then the sleep after the try
OnRuleError(c, old, new) ==
    RuleLoop(Sleep(Log(c, "error", "rule update failed", 0), 300), c.loc.ri + 1, old, new)

AfterRulePut(c, ok, old, new) ==
    IF ok
    THEN RuleLoop(Sleep([Log(c, "success", "rule updated", 0)
                            EXCEPT !.loc.updatedRulesCount = @ + 1], 300),
                  c.loc.ri + 1, old, new)
    ELSE OnRuleError(c, old, new)

\* After the fetch of the rules (no rules when it failed).
AfterRulesFetch(c, ok, data, old, new) ==
    IF ok
    THEN RuleLoop([Log(c, "info", "fetched rules", Len(data)) EXCEPT !.loc.allRules = data],
                  1, old, new)
    ELSE RuleLoop(Log(c, "error", "error fetching rules", 0), 1, old, new)

RulesStep(c) == Goto(Log(c, "info", "step: rules", 0), "rules")

\* ------------------------------------------------------------------------
\* Scenes.
Includes(list, x) == \E k \in 1..Len(list) : list[k] = x

MutSceneListIgnoresNew(scene, old, new) == Includes(scene.lights, old)

\* scene.lights.includes(old) && !scene.lights.includes(new)
SceneListNeedsNew(scene, old, new) == Includes(scene.lights, old) /\ ~Includes(scene.lights, new)

\* scene.lights.includes(old) || scene.lightstates[old]
SceneInvolves(scene, old) == Includes(scene.lights, old) \/ scene.lightstates[old] # Undefined

RECURSIVE SceneLoop(_, _, _, _)
RECURSIVE SceneTail(_, _, _, _, _)

\* The second pass from scene m on, up to the next call.
SceneLoop(c, m, old, new) ==
    IF m > Len(c.loc.scenesWithOldLight) THEN RulesStep(c)
    ELSE LET scene == c.loc.scenesWithOldLight[m].data
             cm == [c EXCEPT !.loc.mi = m]
         IN IF scene.lightstates[old] # Undefined
            THEN Goto(cm, "sceneStatePut")
            ELSE LET c1 == Log(cm, "info", "old state not found in scene", 0) IN
                 IF SceneListNeedsNew(scene, old, new)
                 THEN Goto(c1, "sceneListPut")
                 ELSE SceneTail(c1, m, FALSE, old, new)

\* The end of one round of the second pass as it would be if the first pass
\* were resumed after it.
MutSceneTailResumesDiscovery(c, m, sceneModified, old, new) ==
    Goto(Sleep(c, 250), "sceneGet")

\* The end of one round of the second pass; sceneModified as the round left it.
SceneTail(c, m, sceneModified, old, new) ==
    LET scene == c.loc.scenesWithOldLight[m].data
        c1 == IF ~sceneModified /\ scene.lightstates[old] = Undefined
              THEN Log(c, "info", "no modifications needed for scene", 0) ELSE c
    IN SceneLoop(Sleep(c1, 250), m + 1, old, new)

MutSceneListRetried(c, old, new) ==
    Goto(Log(c, "warning", "scene light list failed", 0), "sceneListPut")

\* catch (sceneLightListError)
OnSceneListError(c, old, new) ==
    SceneTail(Log(c, "warning", "scene light list failed", 0), c.loc.mi,
              c.loc.scenesWithOldLight[c.loc.mi].data.lightstates[old] # Undefined, old, new)

AfterSceneListPut(c, ok, old, new) ==
    IF ok THEN SceneTail(Log(c, "success", "added to scene light list", 0), c.loc.mi, TRUE, old, new)
    ELSE OnSceneListError(c, old, new)

\* catch (sceneError): the state copy is inside the round's try, with no try
\* of its own, so its failure ends the round.
OnSceneError(c, old, new) ==
    SceneLoop(Log(c, "error", "error processing scene", 0), c.loc.mi + 1, old, new)

AfterSceneStatePut(c, ok, old, new) ==
    IF ok
    THEN LET c1 == Log(c, "success", "copied scene state", 0) IN
         IF SceneListNeedsNew(c.loc.scenesWithOldLight[c.loc.mi].data, old, new)
         THEN Goto(c1, "sceneListPut")
         ELSE SceneTail(c1, c.loc.mi, TRUE, old, new)
    ELSE OnSceneError(c, old, new)

MutSceneFetchNextMutatesAtOnce(c, old, new) == SceneLoop(c, 1, old, new)

\* The end of one round of the first pass: the sleep, then the next scene's
\* detail fetch or, after the last scene, the second pass.
SceneFetchNext(c, old, new) ==
    LET c2 == Sleep(c, 50) IN
    IF c.loc.si < c.loc.scenesData
    THEN Goto([c2 EXCEPT !.loc.si = @ + 1], "sceneGet")
    ELSE SceneLoop(Log(c2, "info", "found scenes", Len(c2.loc.scenesWithOldLight)),
                   1, old, new)

MutSceneFetchErrorUncaught(c, old, new) == Fatal(c)

\* catch (sceneFetchError)
OnSceneFetchError(c, old, new) ==
    SceneFetchNext(Log(c, "warning", "error fetching scene", 0), old, new)

\* The first pass after the detail fetch of scene si: scene is the detail (ok).
AfterSceneGet(c, ok, scene, old, new) ==
    IF ok
    THEN IF SceneInvolves(scene, old)
         THEN SceneFetchNext([c EXCEPT !.loc.scenesWithOldLight =
                                          Append(@, [id |-> c.loc.si, data |-> scene])],
                             old, new)
         ELSE SceneFetchNext(c, old, new)
    ELSE OnSceneFetchError(c, old, new)

\* After the fetch of the scene collection, which no try of its own wraps.
AfterScenesFetch(c, ok, count, old, new) ==
    IF ok
    THEN IF count > 0
         THEN Goto([c EXCEPT !.loc.scenesData = count, !.loc.si = 1], "sceneGet")
         ELSE SceneLoop(Log(c, "info", "found scenes", 0), 1, old, new)
    ELSE Fatal(c)

ScenesStep(c) == Goto(Log(c, "info", "step: scenes", 0), "scenes")

\* ------------------------------------------------------------------------
\* Groups.
\* The loop over groupsWithOldLight from position k on.
GroupLoop(c, k) ==
    IF k > Len(c.loc.groupsWithOldLight) THEN ScenesStep(c)
    ELSE Goto([c EXCEPT !.loc.gk = k], "groupGet")

MutGroupErrorUncaught(c) == Fatal(c)

\* catch (groupError): the sleep is inside the try and is skipped
OnGroupError(c) == GroupLoop(Log(c, "error", "error updating group", 0), c.loc.gk + 1)

AfterGroupPut(c, ok) ==
    IF ok THEN GroupLoop(Sleep(Log(c, "success", "added to group", 0), 250), c.loc.gk + 1)
    ELSE OnGroupError(c)

MutGroupAlwaysNeedsNew(currentLights, new) == TRUE

\* !currentLights.includes(selectedNewLightV1Id)
GroupNeedsNew(currentLights, new) == ~Includes(currentLights, new)

MutUpdatedLightsInFront(currentLights, new) == <<new>> \o currentLights

\* [...currentLights, selectedNewLightV1Id]
UpdatedLights(currentLights, new) == Append(currentLights, new)

\* After the fetch of one group: lights is group.lights || [] (ok).
AfterGroupGet(c, ok, lights, new) ==
    IF ok
    THEN IF GroupNeedsNew(lights, new)
         THEN Goto([c EXCEPT !.loc.currentLights = lights], "groupPut")
         ELSE GroupLoop(Sleep(Log(c, "info", "already in group", 0), 250), c.loc.gk + 1)
    ELSE OnGroupError(c)

\* for (const groupId in groupsData): the ids, in order, of the groups whose
\* lights include the old light.
RECURSIVE GroupsWith(_, _, _)
GroupsWith(groupsData, i, old) ==
    IF i > Len(groupsData) THEN <<>>
    ELSE (IF Includes(groupsData[i], old) THEN <<i>> ELSE <<>>)
         \o GroupsWith(groupsData, i + 1, old)

\* After the fetch of the group collection, which no try of its own wraps.
AfterGroupsFetch(c, ok, groupsData, old) ==
    IF ok
    THEN LET found == GroupsWith(groupsData, 1, old) IN
         GroupLoop(Log(Log([c EXCEPT !.loc.groupsWithOldLight = found],
                           "info", "found groups", Len(found)),
                       "info", "step: adding to groups", 0), 1)
    ELSE Fatal(c)

ScanIdle ==
    /\ scanPc = "off" /\ scanOld = Undefined /\ scanNew = Undefined
    /\ tree0 = Str("") /\ tree1 = Str("") /\ tree2 = Str("")
    /\ ret1 = FALSE /\ ret2 = FALSE

RunIdle ==
    /\ bLights = <<>> /\ bV2Lights = <<>> /\ bGroups = <<>> /\ bScenes = <<>>
    /\ bRules = <<>> /\ bInstances = <<>>
    /\ allV1Lights = Null /\ v1ToV2IdMap = Null
    /\ selectedOldLightV1Id = "" /\ selectedNewLightV1Id = ""
    /\ altRenameChecked = FALSE /\ startDisabled = FALSE /\ controlsDisabled = FALSE
    /\ startBtnText = "Start"
    /\ apiV1BaseUrl = "" /\ apiV2BaseUrl = "" /\ step2Shown = FALSE /\ fetchDisabled = FALSE
    /\ pc = "off" /\ loc = <<>> /\ trace = <<>> /\ log = <<>> /\ console = <<>>
    /\ inFlight = <<>>
    /\ faultsLeft = 0 /\ warnsLeft = 0 /\ runNo = 0 /\ prevRun = <<>>
    /\ bridgeIp = "" /\ apiUser = "" /\ clicked = <<>> /\ sent = <<>>

InitScan ==
    /\ RunIdle
    /\ scanPc = "start"
    /\ scanOld \in GUIDs /\ scanNew \in GUIDs \ {scanOld}
    /\ tree0 \in ScanTrees
    /\ tree1 = Str("") /\ tree2 = Str("") /\ ret1 = FALSE /\ ret2 = FALSE

\* A first call of addLightReference on a deep copy of the tree.
ScanFirst ==
    /\ scanPc = "start"
    /\ LET r == addLightReference(tree0, scanOld, scanNew) IN
       tree1' = r.obj /\ ret1' = r.modified
    /\ scanPc' = "once"
    /\ UNCHANGED <<scanOld, scanNew, tree0, tree2, ret2>>
    /\ UNCHANGED <<bridgeVars, pageVars, pc, loc, trace, log, console, inFlight, faultsLeft, warnsLeft, runNo, prevRun, credVars>>

\* A second call, with the same pair, on the tree the first call left.
ScanSecond ==
    /\ scanPc = "once"
    /\ LET r == addLightReference(tree1, scanOld, scanNew) IN
       tree2' = r.obj /\ ret2' = r.modified
    /\ scanPc' = "twice"
    /\ UNCHANGED <<scanOld, scanNew, tree0, tree1, ret1>>
    /\ UNCHANGED <<bridgeVars, pageVars, pc, loc, trace, log, console, inFlight, faultsLeft, warnsLeft, runNo, prevRun, credVars>>

\* ------------------------------------------------------------------------
\* The page.
runVars == <<pc, loc, trace, log, console, inFlight>>
globalVars == <<allV1Lights, v1ToV2IdMap, selectedOldLightV1Id, selectedNewLightV1Id,
                altRenameChecked, startDisabled, controlsDisabled,
                apiV1BaseUrl, apiV2BaseUrl, step2Shown, fetchDisabled>>
envVars == <<runNo, prevRun>>

InitTyped(b, faults, warns, savedIp, savedApiUser) ==
    /\ bridgeIp = savedIp /\ apiUser = savedApiUser /\ clicked = <<>> /\ sent = <<>>
    /\ bLights = InitLights /\ bV2Lights = b.v2 /\ bGroups = b.groups
    /\ bScenes = b.scenes /\ bRules = b.rules /\ bInstances = b.instances
    /\ allV1Lights = Null /\ v1ToV2IdMap = Null
    /\ selectedOldLightV1Id = "" /\ selectedNewLightV1Id = ""
    /\ altRenameChecked = FALSE /\ startDisabled = FALSE /\ controlsDisabled = FALSE
    /\ startBtnText = "Start"
    /\ apiV1BaseUrl = "" /\ apiV2BaseUrl = "" /\ step2Shown = FALSE /\ fetchDisabled = FALSE
    /\ pc = "step1" /\ loc = NoLoc /\ trace = <<>> /\ log = <<>> /\ console = <<>>
    /\ inFlight = <<>>
    /\ faultsLeft = faults /\ warnsLeft = warns /\ runNo = 1 /\ prevRun = <<>>
    /\ ScanIdle

\* A page load that finds both inputs saved in sessionStorage.
InitPage(b, faults, warns) == InitTyped(b, faults, warns, "ip", "user")

Init == \E b \in Bridges : InitPage(b, MaxFailures, 0)

\* What a call may do: return, or (while the bridge may still fail) throw.
Outcomes == IF faultsLeft > 0 THEN {TRUE, FALSE} ELSE {TRUE}
Spend(ok) ==
    /\ faultsLeft' = IF ok THEN faultsLeft ELSE faultsLeft - 1
    /\ warnsLeft' = warnsLeft

\* What a write may do: be applied, throw, or (while the bridge may still do
\* so) come back with status 2xx and a JSON body that carries an error envelope.
PutAnswers ==
    {"applied"} \cup (IF faultsLeft > 0 THEN {"thrown"} ELSE {})
                \cup (IF warnsLeft > 0 THEN {"envelope"} ELSE {})
SpendOn(answer) ==
    /\ faultsLeft' = IF answer = "thrown" THEN faultsLeft - 1 ELSE faultsLeft
    /\ warnsLeft' = IF answer = "envelope" THEN warnsLeft - 1 ELSE warnsLeft

MutEnvelopeThrows(answer) == answer = "applied"
\* apiRequest returns the parsed body of every 2xx answer (return data)
Returns(answer) == answer # "thrown"

\* await apiRequest(url, 'PUT', body) as answered: the warning of an envelope,
\* then the call with the body sent and whether it returned or threw.
Put(answer, api, res, id, body) ==
    Call(EnvelopeWarning(Ctx, api, answer), "PUT", res, id, body, Returns(answer))

LogEntry(type, text, n) == [type |-> type, text |-> text, n |-> n]
CallEntry(op, res, id, body, ok) == [op |-> op, res |-> res, id |-> id, body |-> body, ok |-> ok]

\* The positions at which the start handler awaits the answer to a call; the
\* action of each is enabled whenever the handler is there.
CallLabels ==
    {"groups", "groupGet", "groupPut", "scenes", "sceneGet", "sceneStatePut", "sceneListPut",
     "rules", "rulePut", "instances", "instanceGet", "instancePut",
     "renameOldV1", "renameOldV2", "renameNewV1", "renameNewV2", "startupPut"}

\* The requests in flight once the one awaited at label has been answered.
Answered(requests, label) ==
    IF \E i \in 1..Len(requests) : requests[i] = label
    THEN LET i == CHOOSE i \in 1..Len(requests) : requests[i] = label IN
         SubSeq(requests, 1, i - 1) \o SubSeq(requests, i + 1, Len(requests))
    ELSE requests

\* The handler runs on from the answer to its next call, which it sends, or to
\* its end (finally).
Resume(c) ==
    /\ pc' = c.pc /\ loc' = c.loc /\ trace' = c.trace /\ log' = c.log
    /\ console' = c.console
    /\ inFlight' = IF c.pc \in CallLabels THEN Append(Answered(inFlight, pc), c.pc)
                   ELSE Answered(inFlight, pc)
    /\ startBtnText' = IF c.pc = "finished" THEN "Process Finished" ELSE startBtnText

\* --- the two inputs of step 1.  Their input listeners keep the globals
\* bridgeIp and apiUser equal to what is typed, whatever else is going on;
\* step 1 is on screen until a fetch succeeds.
Hosts == {"ip", "ip2"}
Users == {"user", "user2"}

EditBridgeIp ==
    /\ ~step2Shown
    /\ \E value \in (Hosts \cup {""}) \ {bridgeIp} : bridgeIp' = value
    /\ UNCHANGED <<bridgeVars, pageVars, runVars, faultsLeft, warnsLeft, envVars,
                   apiUser, clicked, sent, scanVars>>

EditApiUser ==
    /\ ~step2Shown
    /\ \E value \in (Users \cup {""}) \ {apiUser} : apiUser' = value
    /\ UNCHANGED <<bridgeVars, pageVars, runVars, faultsLeft, warnsLeft, envVars,
                   bridgeIp, clicked, sent, scanVars>>

\* `https://${bridgeIp}/api/${apiUser}/`
V1BaseUrl(ip, user) ==
    CASE ip = "ip" /\ user = "user" -> "https://ip/api/user/"
      [] ip = "ip" /\ user = "user2" -> "https://ip/api/user2/"
      [] ip = "ip2" /\ user = "user" -> "https://ip2/api/user/"
      [] ip = "ip2" /\ user = "user2" -> "https://ip2/api/user2/"
\* `https://${bridgeIp}/clip/v2/`
V2BaseUrl(ip) ==
    CASE ip = "ip" -> "https://ip/clip/v2/"
      [] ip = "ip2" -> "https://ip2/clip/v2/"
\* url.includes('/clip/v2/')
IsV2(url) == \E ip \in Hosts : url = V2BaseUrl(ip)
\* The host and the username a URL was built from.
HostOf(url) == CHOOSE ip \in Hosts : url = V2BaseUrl(ip) \/ \E user \in Users : url = V1BaseUrl(ip, user)
UserOf(url) == CHOOSE user \in Users : \E ip \in Hosts : url = V1BaseUrl(ip, user)

\* apiRequest: the URL a request goes to and its hue-application-key header
\* ("" for none; an argument left out is "" as well).
Request(url, method, apiUsername, forceV2Header) ==
    [url |-> url,
     key |-> IF IsV2(url) /\ apiUsername # "" /\ (method # "GET" \/ forceV2Header)
             THEN apiUsername ELSE ""]

\* --- fetchLightsBtn click, up to the first call.  Without both credentials
\* the handler returns after the reset of the two globals.
FetchClick ==
    /\ ~step2Shown /\ ~fetchDisabled
    /\ allV1Lights' = Null /\ v1ToV2IdMap' = Null
    /\ UNCHANGED <<bridgeIp, apiUser>>
    /\ LET credentials == bridgeIp # "" /\ apiUser # "" IN
         IF credentials
         THEN /\ apiV1BaseUrl' = V1BaseUrl(bridgeIp, apiUser)
              /\ apiV2BaseUrl' = V2BaseUrl(bridgeIp)
              /\ clicked' = <<bridgeIp, apiUser>>
              /\ sent' = <<Request(V1BaseUrl(bridgeIp, apiUser), "GET", "", FALSE)>>
              /\ log' = log \o <<LogEntry("info", "connecting", 0),
                                 LogEntry("info", "fetching V1 lights", 0)>>
              /\ fetchDisabled' = TRUE
              /\ pc' = "fetchV1" /\ inFlight' = Append(inFlight, "fetchV1")
              /\ trace' = <<>>
         ELSE UNCHANGED <<apiV1BaseUrl, apiV2BaseUrl, log, fetchDisabled, pc, inFlight, trace,
                          clicked, sent>>
    /\ UNCHANGED <<bridgeVars, selectedOldLightV1Id, selectedNewLightV1Id, altRenameChecked,
                   startDisabled, controlsDisabled, startBtnText, step2Shown,
                   loc, console, faultsLeft, warnsLeft, envVars, scanVars>>

\* catch (error) and finally of the fetch handler
FetchFailed ==
    /\ log' = Append(log, LogEntry("error", "error fetching lights", 0))
    /\ console' = Append(console, LogEntry("error", "error fetching lights", 0))
    /\ apiV1BaseUrl' = "" /\ apiV2BaseUrl' = ""
    /\ allV1Lights' = Null /\ v1ToV2IdMap' = Null
    /\ fetchDisabled' = FALSE
    /\ pc' = "step1"
    /\ UNCHANGED step2Shown

\* What the bridge may answer to GET lights: the lights; or, while it may
\* still fail, an error status (thrown), a JSON null, or the legacy error
\* envelope [{error: {...}}] with status 200.
ErrorEnvelope == [i \in {"0"} |-> [error |-> "unauthorized user"]]
V1Answers == IF faultsLeft > 0 THEN {"lights", "thrown", "null", "envelope"} ELSE {"lights"}
V1Body(answer) ==
    IF answer = "lights" THEN bLights
    ELSE IF answer = "null" THEN Null
    ELSE IF answer = "envelope" THEN ErrorEnvelope ELSE <<>>

\* !v1Data || typeof v1Data !== 'object' is false: the data passes
V1DataPasses(v1Data) == v1Data # Null

\* --- the answer to GET lights, up to the second call
FetchV1Lights ==
    /\ pc = "fetchV1"
    /\ \E answer \in V1Answers :
        LET ok == answer # "thrown"
            v1Data == V1Body(answer)
        IN /\ Spend(answer = "lights")
           /\ trace' = Append(trace, CallEntry("GET", "lights", "", v1Data, ok))
           /\ IF ok /\ V1DataPasses(v1Data)
              THEN /\ allV1Lights' = v1Data
                   /\ pc' = "fetchV2"
                   /\ sent' = Append(sent, Request(apiV2BaseUrl, "GET", apiUser, TRUE))
                   /\ inFlight' = Append(Answered(inFlight, "fetchV1"), "fetchV2")
                   /\ log' = log \o (IF answer = "envelope"
                                     THEN <<LogEntry("warning", "API V1 Warning", 0)>> ELSE <<>>)
                                 \o <<LogEntry("success", "fetched V1 lights", 0),
                                      LogEntry("info", "fetching V2 lights", 0)>>
                   /\ console' = IF answer = "envelope"
                                 THEN Append(console, LogEntry("warning", "API V1 Warning", 0))
                                 ELSE console
                   /\ UNCHANGED <<v1ToV2IdMap, apiV1BaseUrl, apiV2BaseUrl, fetchDisabled,
                                  step2Shown>>
              ELSE /\ FetchFailed
                   /\ inFlight' = Answered(inFlight, "fetchV1")
                   /\ UNCHANGED sent
    /\ UNCHANGED <<bridgeVars, selectedOldLightV1Id, selectedNewLightV1Id, altRenameChecked,
                   startDisabled, controlsDisabled, startBtnText, loc, envVars,
                   bridgeIp, apiUser, clicked, scanVars>>

\* light.id_v1.match(/\/lights\/(\d+)$/)
DigitStrings == {"5", "7", "9", "57"}
V1IdMatch(path) ==
    IF Len(path) >= 2 /\ path[Len(path) - 1] = "lights" /\ path[Len(path)] \in DigitStrings
    THEN path[Len(path)] ELSE Undefined

\* v2Data.data.forEach(...): the map after the lights from position i on
RECURSIVE BuildIdMap(_, _, _)
BuildIdMap(data, i, map) ==
    IF i > Len(data) THEN map
    ELSE LET v1Id == V1IdMatch(data[i].id_v1) IN
         BuildIdMap(data, i + 1,
                    IF v1Id # Undefined
                    THEN [k \in DOMAIN map \cup {v1Id} |-> IF k = v1Id THEN data[i].id ELSE map[k]]
                    ELSE map)

\* What the bridge may answer to GET resource/light: {data: [...]}; or, while
\* it may still fail, an error status (thrown) or a body without a data array.
NoData == [errors |-> <<>>]
V2Answers == IF faultsLeft > 0 THEN {"lights", "thrown", "nodata"} ELSE {"lights"}

\* --- the answer to GET resource/light: the map, the selectors, the selection step
FetchV2Lights ==
    /\ pc = "fetchV2"
    /\ \E answer \in V2Answers :
        /\ Spend(answer = "lights")
        /\ trace' = Append(trace, CallEntry("GET", "v2lights", "",
                                            IF answer = "lights" THEN [data |-> bV2Lights]
                                            ELSE IF answer = "nodata" THEN NoData ELSE <<>>,
                                            answer # "thrown"))
        /\ inFlight' = Answered(inFlight, "fetchV2")
        /\ IF answer = "lights"
           THEN LET map == BuildIdMap(bV2Lights, 1, <<>>) IN
                /\ v1ToV2IdMap' = map
                /\ allV1Lights' = allV1Lights
                /\ step2Shown' = TRUE
                /\ fetchDisabled' = FALSE
                /\ pc' = "step2"
                /\ log' = <<LogEntry("info", "select the bulbs", 0)>>
                /\ console' = IF DOMAIN allV1Lights \subseteq DOMAIN map
                               THEN console
                               ELSE Append(console, LogEntry("warning", "lights could not be mapped", 0))
                /\ UNCHANGED <<apiV1BaseUrl, apiV2BaseUrl>>
           ELSE FetchFailed
    /\ UNCHANGED <<bridgeVars, selectedOldLightV1Id, selectedNewLightV1Id, altRenameChecked,
                   startDisabled, controlsDisabled, startBtnText, loc, envVars, credVars, scanVars>>

\* What the operator picks in the two selectors: nothing, or one of the
\* options, which are the keys of the snapshot.
SelectChoices == {"", "0", "5", "7"}

\* updateConfirmation(): whether the start button ends disabled
ConfirmationDisables(o, n) == ~(o # "" /\ n # "" /\ o # n)

\* --- change of oldLightSelect or newLightSelect
Select(o, n) ==
    /\ step2Shown /\ ~controlsDisabled
    /\ {o, n} \subseteq {""} \cup DOMAIN allV1Lights
    /\ <<o, n>> # <<selectedOldLightV1Id, selectedNewLightV1Id>>
    /\ selectedOldLightV1Id' = o /\ selectedNewLightV1Id' = n
    /\ startDisabled' = ConfirmationDisables(o, n)
    /\ UNCHANGED <<bridgeVars, allV1Lights, v1ToV2IdMap, altRenameChecked, controlsDisabled,
                   startBtnText, apiV1BaseUrl, apiV2BaseUrl, step2Shown, fetchDisabled,
                   runVars, faultsLeft, warnsLeft, envVars, credVars, scanVars>>

\* --- input on altRenameCheck
ToggleAlt ==
    /\ step2Shown /\ ~controlsDisabled
    /\ altRenameChecked' = ~altRenameChecked
    /\ startDisabled' = ConfirmationDisables(selectedOldLightV1Id, selectedNewLightV1Id)
    /\ UNCHANGED <<bridgeVars, allV1Lights, v1ToV2IdMap, selectedOldLightV1Id,
                   selectedNewLightV1Id, controlsDisabled, startBtnText,
                   apiV1BaseUrl, apiV2BaseUrl, step2Shown, fetchDisabled, runVars,
                   faultsLeft, warnsLeft, envVars, credVars, scanVars>>

Lookup(map, key) == IF key \in DOMAIN map THEN map[key] ELSE Undefined

\* The three validations of the start handler: the message of the one that
\* rejects the click, or "" when the click passes.
StartRejection ==
    IF selectedOldLightV1Id = "" \/ selectedNewLightV1Id = ""
       \/ selectedOldLightV1Id = selectedNewLightV1Id
    THEN "invalid selection"
    ELSE IF allV1Lights = Null \/ selectedOldLightV1Id \notin DOMAIN allV1Lights
            \/ selectedNewLightV1Id \notin DOMAIN allV1Lights
         THEN "V1 light data is missing"
         ELSE IF v1ToV2IdMap = Null THEN "V1-to-V2 ID map is missing" ELSE ""

\* The renaming strategy: the names the two bulbs are to get, from the old
\* bulb's name and the state of the checkbox.
OldBulbTargetName(originalOldLightName, useAltRename) ==
    IF useAltRename THEN originalOldLightName ELSE Append(originalOldLightName, "(old)")

MutNewBulbAlwaysInherits(originalOldLightName, useAltRename) == originalOldLightName

NewBulbTargetName(originalOldLightName, useAltRename) ==
    IF useAltRename THEN Append(originalOldLightName, "(new)") ELSE originalOldLightName

\* The handler from the V2 id lookup to the first call.
StartRun(c) ==
    LET old == selectedOldLightV1Id
        new == selectedNewLightV1Id
        oldV2 == Lookup(v1ToV2IdMap, old)
        newV2 == Lookup(v1ToV2IdMap, new)
        c1 == IF oldV2 = Undefined THEN Log(c, "error", "no V2 id for old bulb", 0) ELSE c
        c2 == IF newV2 = Undefined THEN Log(c1, "error", "no V2 id for new bulb", 0) ELSE c1
        c3 == Log(c2, "info", "found V2 ids", 0)
        startup == allV1Lights[old].startup
        c4 == IF startup # Undefined THEN Log(c3, "info", "found startup config", 0)
              ELSE Log(c3, "warning", "startup config not found", 0)
        \* clearLog()
        c5 == [c4 EXCEPT !.log = <<>>]
        name == allV1Lights[old].name
        alt == altRenameChecked
        c6 == [c5 EXCEPT !.loc =
                 [NoLoc EXCEPT !.oldLightV2Id = oldV2, !.newLightV2Id = newV2,
                               !.oldStartupConfig = startup,
                               !.originalOldLightName = name,
                               !.currentNewLightName = allV1Lights[new].name,
                               !.useAltRename = alt,
                               !.oldBulbTargetName = OldBulbTargetName(name, alt),
                               !.newBulbTargetName = NewBulbTargetName(name, alt)]]
        c7 == IF alt THEN Log(c6, "warning", "alternate rename active", 0)
              ELSE Log(c6, "info", "standard rename process", 0)
    IN Goto(Log(c7, "info", "step: finding groups", 0), "groups")

MutStartButtonStaysEnabled == FALSE

\* startReplacementBtn.disabled = true, before the handler first awaits
StartDisablesButton == TRUE

MutControlsStayEnabled == FALSE
\* oldLightSelect.disabled = newLightSelect.disabled = altRenameCheck.disabled = true
StartDisablesControls == TRUE

MutRejectionClearsLog(message) == <<[type |-> "error", text |-> message, n |-> 0]>>

\* log(message, 'error') of a rejected click: the log box keeps what it held
RejectionLogged(message) == Append(log, [type |-> "error", text |-> message, n |-> 0])

\* --- startReplacementBtn click, up to the first call
StartClick ==
    /\ step2Shown /\ ~startDisabled
    /\ IF StartRejection # ""
       THEN /\ faultsLeft > 0 /\ faultsLeft' = faultsLeft - 1 /\ warnsLeft' = warnsLeft
            /\ log' = RejectionLogged(StartRejection)
            /\ console' = Append(console, LogEntry("error", StartRejection, 0))
            /\ UNCHANGED <<pc, loc, trace, inFlight, startDisabled, controlsDisabled,
                           startBtnText>>
       ELSE /\ LET c == StartRun(Ctx) IN
               /\ pc' = c.pc /\ loc' = c.loc /\ trace' = c.trace /\ log' = c.log
               /\ console' = c.console
               /\ inFlight' = Append(inFlight, c.pc)
            /\ faultsLeft' = faultsLeft /\ warnsLeft' = warnsLeft
            /\ startDisabled' = StartDisablesButton /\ controlsDisabled' = StartDisablesControls
            /\ startBtnText' = "Working..."
    /\ UNCHANGED <<bridgeVars, allV1Lights, v1ToV2IdMap, selectedOldLightV1Id,
                   selectedNewLightV1Id, altRenameChecked, apiV1BaseUrl, apiV2BaseUrl,
                   step2Shown, fetchDisabled, envVars, credVars, scanVars>>

\* ------------------------------------------------------------------------
\* The calls of the start handler.  Each action is one call (made, answered or
\* failed) and the handler's code from there to its next call.
Old == selectedOldLightV1Id
New == selectedNewLightV1Id

\* GET groups
FetchGroups ==
    /\ pc = "groups"
    /\ \E ok \in Outcomes :
        /\ Spend(ok)
        /\ Resume(AfterGroupsFetch(Call(Ctx, "GET", "groups", 0, IF ok THEN bGroups ELSE <<>>, ok),
                                   ok, bGroups, Old))
    /\ UNCHANGED <<bridgeVars, globalVars, envVars, credVars, scanVars>>

\* GET groups/{id}
GetGroup ==
    /\ pc = "groupGet"
    /\ LET id == loc.groupsWithOldLight[loc.gk] IN
       \E ok \in Outcomes :
        /\ Spend(ok)
        /\ Resume(AfterGroupGet(Call(Ctx, "GET", "group", id, IF ok THEN bGroups[id] ELSE <<>>, ok),
                                ok, bGroups[id], New))
    /\ UNCHANGED <<bridgeVars, globalVars, envVars, credVars, scanVars>>

\* PUT groups/{id} {lights}
PutGroup ==
    /\ pc = "groupPut"
    /\ LET id == loc.groupsWithOldLight[loc.gk]
           body == UpdatedLights(loc.currentLights, New)
       IN \E answer \in PutAnswers :
            /\ SpendOn(answer)
            /\ Resume(AfterGroupPut(Put(answer, "V1", "group", id, body), Returns(answer)))
            /\ bGroups' = IF answer = "applied" THEN [bGroups EXCEPT ![id] = body] ELSE bGroups
    /\ UNCHANGED <<bLights, bV2Lights, bScenes, bRules, bInstances, globalVars, envVars, credVars, scanVars>>

\* GET scenes
FetchScenes ==
    /\ pc = "scenes"
    /\ \E ok \in Outcomes :
        /\ Spend(ok)
        /\ Resume(AfterScenesFetch(Call(Ctx, "GET", "scenes", 0, IF ok THEN bScenes ELSE <<>>, ok),
                                   ok, Len(bScenes), Old, New))
    /\ UNCHANGED <<bridgeVars, globalVars, envVars, credVars, scanVars>>

\* GET scenes/{id}
GetScene ==
    /\ pc = "sceneGet"
    /\ LET id == loc.si IN
       \E ok \in Outcomes :
        /\ Spend(ok)
        /\ Resume(AfterSceneGet(Call(Ctx, "GET", "scene", id, IF ok THEN bScenes[id] ELSE <<>>, ok),
                                ok, bScenes[id], Old, New))
    /\ UNCHANGED <<bridgeVars, globalVars, envVars, credVars, scanVars>>

\* PUT scenes/{id}/lightstates/{new} with the old light's state of the snapshot
PutSceneState ==
    /\ pc = "sceneStatePut"
    /\ LET info == loc.scenesWithOldLight[loc.mi]
           body == [light |-> New, state |-> info.data.lightstates[Old]]
       IN \E answer \in PutAnswers :
            /\ SpendOn(answer)
            /\ Resume(AfterSceneStatePut(Put(answer, "V1", "lightstate", info.id, body),
                                         Returns(answer), Old, New))
            /\ bScenes' = IF answer = "applied" THEN [bScenes EXCEPT ![info.id].lightstates[New] = body.state]
                          ELSE bScenes
    /\ UNCHANGED <<bLights, bV2Lights, bGroups, bRules, bInstances, globalVars, envVars, credVars, scanVars>>

\* PUT scenes/{id} {lights: [...scene.lights, new]}
PutSceneList ==
    /\ pc = "sceneListPut"
    /\ LET info == loc.scenesWithOldLight[loc.mi]
           body == Append(info.data.lights, New)
       IN \E answer \in PutAnswers :
            /\ SpendOn(answer)
            /\ Resume(AfterSceneListPut(Put(answer, "V1", "scene", info.id, body), Returns(answer), Old, New))
            /\ bScenes' = IF answer = "applied" THEN [bScenes EXCEPT ![info.id].lights = body] ELSE bScenes
    /\ UNCHANGED <<bLights, bV2Lights, bGroups, bRules, bInstances, globalVars, envVars, credVars, scanVars>>

\* GET rules
FetchRules ==
    /\ pc = "rules"
    /\ \E ok \in Outcomes :
        /\ Spend(ok)
        /\ Resume(AfterRulesFetch(Call(Ctx, "GET", "rules", 0, IF ok THEN bRules ELSE <<>>, ok),
                                  ok, bRules, Old, New))
    /\ UNCHANGED <<bridgeVars, globalVars, envVars, credVars, scanVars>>

\* PUT rules/{id} with the arrays the payload includes
PutRule ==
    /\ pc = "rulePut"
    /\ LET id == loc.ri
           u == loc.updatePayload
       IN \E answer \in PutAnswers :
            /\ SpendOn(answer)
            /\ Resume(AfterRulePut(Put(answer, "V1", "rule", id, u), Returns(answer), Old, New))
            /\ bRules' = IF answer = "applied"
                         THEN [bRules EXCEPT ![id] =
                                 [conditions |-> IF u.hasConditions THEN u.conditions ELSE @.conditions,
                                  actions |-> IF u.hasActions THEN u.actions ELSE @.actions]]
                         ELSE bRules
    /\ UNCHANGED <<bLights, bV2Lights, bGroups, bScenes, bInstances, globalVars, envVars, credVars, scanVars>>

\* GET resource/behavior_instance
FetchInstances ==
    /\ pc = "instances"
    /\ LET data == [i \in 1..Len(bInstances) |-> [id |-> i, configuration |-> bInstances[i]]] IN
       \E ok \in Outcomes :
        /\ Spend(ok)
        /\ Resume(AfterInstancesFetch(Call(Ctx, "GET", "instances", 0, IF ok THEN data ELSE <<>>, ok),
                                      ok, data))
    /\ UNCHANGED <<bridgeVars, globalVars, envVars, credVars, scanVars>>

\* GET resource/behavior_instance/{id}
GetInstance ==
    /\ pc = "instanceGet"
    /\ LET id == loc.allBehaviorInstances[loc.ii].id IN
       \E ok \in Outcomes :
        /\ Spend(ok)
        /\ Resume(AfterInstanceGet(Call(Ctx, "GET", "instance", id,
                                        IF ok THEN bInstances[id] ELSE Str(""), ok),
                                   ok, bInstances[id]))
    /\ UNCHANGED <<bridgeVars, globalVars, envVars, credVars, scanVars>>

\* PUT resource/behavior_instance/{id} {configuration: modifiedConfig}
PutInstance ==
    /\ pc = "instancePut"
    /\ LET id == loc.allBehaviorInstances[loc.ii].id
           body == loc.modifiedConfig
       IN \E answer \in PutAnswers :
            /\ SpendOn(answer)
            /\ Resume(AfterInstancePut(Put(answer, "V2", "instance", id, body), Returns(answer)))
            /\ bInstances' = IF answer = "applied" THEN [bInstances EXCEPT ![id] = body] ELSE bInstances
    /\ UNCHANGED <<bLights, bV2Lights, bGroups, bScenes, bRules, globalVars, envVars, credVars, scanVars>>

\* The V2 lights with the one whose id is guid renamed.
RenamedV2(lights, guid, name) ==
    [k \in 1..Len(lights) |-> IF lights[k].id = guid THEN [lights[k] EXCEPT !.name = name]
                                                       ELSE lights[k]]

\* PUT lights/{old} {name}
RenameOldV1 ==
    /\ pc = "renameOldV1"
    /\ \E answer \in PutAnswers :
        /\ SpendOn(answer)
        /\ Resume(AfterRenameOldV1(Put(answer, "V1", "light", Old, loc.oldBulbTargetName), Returns(answer)))
        /\ bLights' = IF answer = "applied" THEN [bLights EXCEPT ![Old].name = loc.oldBulbTargetName] ELSE bLights
    /\ UNCHANGED <<bV2Lights, bGroups, bScenes, bRules, bInstances, globalVars, envVars, credVars, scanVars>>

\* PUT resource/light/{oldLightV2Id} {metadata: {name}}
RenameOldV2 ==
    /\ pc = "renameOldV2"
    /\ \E answer \in PutAnswers :
        /\ SpendOn(answer)
        /\ Resume(AfterRenameOldV2(Put(answer, "V2", "v2light", loc.oldLightV2Id, loc.oldBulbTargetName), Returns(answer)))
        /\ bV2Lights' = IF answer = "applied" THEN RenamedV2(bV2Lights, loc.oldLightV2Id, loc.oldBulbTargetName)
                        ELSE bV2Lights
    /\ UNCHANGED <<bLights, bGroups, bScenes, bRules, bInstances, globalVars, envVars, credVars, scanVars>>

\* PUT lights/{new} {name}
RenameNewV1 ==
    /\ pc = "renameNewV1"
    /\ \E answer \in PutAnswers :
        /\ SpendOn(answer)
        /\ Resume(AfterRenameNewV1(Put(answer, "V1", "light", New, loc.newBulbTargetName), Returns(answer)))
        /\ bLights' = IF answer = "applied" THEN [bLights EXCEPT ![New].name = loc.newBulbTargetName] ELSE bLights
    /\ UNCHANGED <<bV2Lights, bGroups, bScenes, bRules, bInstances, globalVars, envVars, credVars, scanVars>>

\* PUT resource/light/{newLightV2Id} {metadata: {name}}
RenameNewV2 ==
    /\ pc = "renameNewV2"
    /\ \E answer \in PutAnswers :
        /\ SpendOn(answer)
        /\ Resume(AfterRenameNewV2(Put(answer, "V2", "v2light", loc.newLightV2Id, loc.newBulbTargetName), Returns(answer)))
        /\ bV2Lights' = IF answer = "applied" THEN RenamedV2(bV2Lights, loc.newLightV2Id, loc.newBulbTargetName)
                        ELSE bV2Lights
    /\ UNCHANGED <<bLights, bGroups, bScenes, bRules, bInstances, globalVars, envVars, credVars, scanVars>>

\* PUT lights/{new}/config {startup: {mode}}
PutStartup ==
    /\ pc = "startupPut"
    /\ \E answer \in PutAnswers :
        /\ SpendOn(answer)
        /\ Resume(AfterStartupPut(Put(answer, "V1", "config", New, loc.oldStartupConfig), Returns(answer)))
        /\ bLights' = IF answer = "applied" THEN [bLights EXCEPT ![New].startup = loc.oldStartupConfig] ELSE bLights
    /\ UNCHANGED <<bV2Lights, bGroups, bScenes, bRules, bInstances, globalVars, envVars, credVars, scanVars>>

\* The operator reloads the page after a finished run: the script's state is
\* new, the bridge is as the run left it.
Reload ==
    /\ pc = "finished" /\ runNo < MaxRuns
    /\ runNo' = runNo + 1
    /\ prevRun' = <<selectedOldLightV1Id, selectedNewLightV1Id>>
    /\ allV1Lights' = Null /\ v1ToV2IdMap' = Null
    /\ selectedOldLightV1Id' = "" /\ selectedNewLightV1Id' = ""
    /\ altRenameChecked' = FALSE /\ startDisabled' = FALSE /\ controlsDisabled' = FALSE
    /\ startBtnText' = "Start"
    /\ apiV1BaseUrl' = "" /\ apiV2BaseUrl' = "" /\ step2Shown' = FALSE /\ fetchDisabled' = FALSE
    /\ pc' = "step1" /\ loc' = NoLoc /\ trace' = <<>> /\ log' = <<>> /\ console' = <<>>
    /\ inFlight' = <<>>
    /\ clicked' = <<>> /\ sent' = <<>>
    /\ UNCHANGED <<bridgeVars, faultsLeft, warnsLeft, bridgeIp, apiUser, scanVars>>

Next ==
    \/ FetchClick \/ FetchV1Lights \/ FetchV2Lights
    \/ \E o \in SelectChoices, n \in SelectChoices : Select(o, n)
    \/ ToggleAlt \/ StartClick
    \/ FetchGroups \/ GetGroup \/ PutGroup
    \/ FetchScenes \/ GetScene \/ PutSceneState \/ PutSceneList
    \/ FetchRules \/ PutRule
    \/ FetchInstances \/ GetInstance \/ PutInstance
    \/ RenameOldV1 \/ RenameOldV2 \/ RenameNewV1 \/ RenameNewV2
    \/ PutStartup

\* One page load; the bridge may fail up to MaxFailures calls.
Spec == Init /\ [][Next]_vars

\* Page loads one after the other on a bridge that fails no call.
InitRerun == \E b \in Bridges : InitPage(b, 0, 0)
NextRerun == Next \/ Reload
SpecRerun == InitRerun /\ [][NextRerun]_vars

\* One page load on a bridge that fails at most one call and answers up to MaxWarnings
\* writes with an error envelope.
InitWarn == \E b \in Bridges : InitPage(b, 1, MaxWarnings)
SpecWarn == InitWarn /\ [][Next]_vars

\* One page load with both inputs empty, on a bridge that fails at most one
\* call; the operator types into the inputs whenever step 1 is on screen.
InitEdit == \E b \in Bridges : InitTyped(b, 1, 0, "", "")
NextEdit == Next \/ EditBridgeIp \/ EditApiUser
SpecEdit == InitEdit /\ [][NextEdit]_vars

NextScan == ScanFirst \/ ScanSecond
SpecScan == InitScan /\ [][NextScan]_vars

\* ------------------------------------------------------------------------
\* Properties.  The calls of a run are read from trace, its messages from log.
Events == 1..Len(trace)
IsCall(k, op, res) == trace[k].op = op /\ trace[k].res = res
IsCallOn(k, op, res, id) == IsCall(k, op, res) /\ trace[k].id = id
Logged(text) == \E k \in 1..Len(log) : log[k].text = text
RunStarted == pc \notin {"off", "step1", "fetchV1", "fetchV2", "step2"}
RunEnded == pc = "finished"

\* C1: once a run has passed the start validations, no failure of a single call
\* of the group, scene, rule, automation, rename or startup steps stops it:
\* a run that has ended went through the rule and automation steps and
\* reached the completion summary, and never the "process stopped" exit.
C1_NoCallFailureStopsTheRun ==
    RunEnded =>
        /\ ~Logged("process stopped")
        /\ \E k \in Events : IsCall(k, "GET", "rules")
        /\ \E k \in Events : IsCall(k, "GET", "instances")
        /\ Logged("replacement process complete")

\* C2: in one scene the state copy and the light-list write are independent.
\* When the state copy of a scene fails and the scene's list, as fetched, holds
\* the old light and not the new one, the list write of that scene is still
\* attempted afterwards.
C2_StateCopyFailureKeepsListWrite ==
    RunEnded =>
        \A k \in Events :
            (/\ IsCall(k, "PUT", "lightstate") /\ ~trace[k].ok
             /\ \E g \in Events :
                   /\ g < k /\ IsCallOn(g, "GET", "scene", trace[k].id) /\ trace[g].ok
                   /\ SceneListNeedsNew(trace[g].body, Old, New))
            => \E j \in Events : j > k /\ IsCallOn(j, "PUT", "scene", trace[k].id)

\* C3: when the old or the new light has no GUID in the identifier map, the
\* automation step fetches no behavior instance in detail and writes none.
C3_NoInstanceCallWithoutBothGuids ==
    (RunStarted /\ (loc.oldLightV2Id = Undefined \/ loc.newLightV2Id = Undefined))
        => \A k \in Events : trace[k].res # "instance"

\* How often a value, an address, a light reference occurs in a list.
CountOf(list, x) == Cardinality({k \in 1..Len(list) : list[k] = x})
CountAddress(items, a) == Cardinality({k \in 1..Len(items) : items[k].address = a})
CountRefs(items, rid) == Cardinality({k \in 1..Len(items) : IsLightRef(items[k], rid)})

\* A written light list (of a group, of a scene) against the list as read.
ListWrittenOnce(res, listOf(_)) ==
    \A k \in Events : \A g \in Events :
        (/\ IsCall(k, "PUT", res) /\ g < k
         /\ IsCallOn(g, "GET", res, trace[k].id) /\ trace[g].ok
         /\ CountOf(listOf(trace[g].body), New) <= 1)
        => CountOf(trace[k].body, New) <= 1
SameList(x) == x
LightsOf(scene) == scene.lights

\* A written configuration against the configuration as read: every sequence
\* of the written tree, with the sequence it was read as.
RECURSIVE RefsWrittenOnce(_, _, _)
RefsWrittenOnce(read, written, rid) ==
    /\ (written.t = "arr" /\ CountRefs(read.kids, rid) <= 1) => CountRefs(written.kids, rid) <= 1
    /\ \A k \in 1..Len(read.kids) : RefsWrittenOnce(read.kids[k], written.kids[k], rid)
InstancesWrittenOnce ==
    \A k \in Events : \A g \in Events :
        (/\ IsCall(k, "PUT", "instance") /\ g < k
         /\ IsCallOn(g, "GET", "instance", trace[k].id) /\ trace[g].ok)
        => RefsWrittenOnce(trace[g].body, trace[k].body, loc.newLightV2Id)

\* A written conditions or actions array against the array as read: each
\* address of the new light in it, under the precondition pre(read, address).
AddressesWrittenOnce(read, written, pre(_, _)) ==
    \A j \in 1..Len(written) :
        LET a == written[j].address IN
        (/\ StartsWith(a, LightAddressPrefix(New))
         /\ CountAddress(read, a) <= 1
         /\ pre(read, a))
        => CountAddress(written, a) <= 1
RulesWrittenOnce(pre(_, _)) ==
    \A k \in Events : \A g \in Events :
        (IsCall(k, "PUT", "rule") /\ g < k /\ IsCall(g, "GET", "rules") /\ trace[g].ok)
        => LET u == trace[k].body
               rule == trace[g].body[trace[k].id]
           IN /\ u.hasConditions => AddressesWrittenOnce(rule.conditions, u.conditions, pre)
              /\ u.hasActions => AddressesWrittenOnce(rule.actions, u.actions, pre)
NoMore(read, a) == TRUE
OldAddressReadOnce(read, a) ==
    CountAddress(read, NewAddress(a, LightAddressPrefix(New), LightAddressPrefix(Old))) <= 1

\* C4, as stated: every list a run writes holds the new light's reference at
\* most once, provided the list as read held it at most once: the new id in a
\* group or scene light list, the new reference in each sequence of an
\* automation configuration, each address of the new light in a rule's
\* conditions and in its actions.
C4_NewReferenceOnce_AsStated ==
    RunStarted =>
        /\ ListWrittenOnce("group", SameList)
        /\ ListWrittenOnce("scene", LightsOf)
        /\ InstancesWrittenOnce
        /\ RulesWrittenOnce(NoMore)

\* C4, amended: the same, where for a rule's array the corresponding address
\* of the old light also occurs at most once in the array as read.
C4_NewReferenceOnce ==
    RunStarted =>
        /\ ListWrittenOnce("group", SameList)
        /\ ListWrittenOnce("scene", LightsOf)
        /\ InstancesWrittenOnce
        /\ RulesWrittenOnce(OldAddressReadOnce)

\* A run that wrote a group, a scene's list, a rule and a configuration, the
\* rule with an address of the new light in it.
C4_Witness ==
    /\ RunEnded
    /\ \E k \in Events : IsCall(k, "PUT", "group") /\ trace[k].ok /\ CountOf(trace[k].body, New) = 1
    /\ \E k \in Events : IsCall(k, "PUT", "scene") /\ trace[k].ok
    /\ \E k \in Events : IsCall(k, "PUT", "instance") /\ trace[k].ok
    /\ \E k \in Events : /\ IsCall(k, "PUT", "rule") /\ trace[k].ok /\ trace[k].body.hasConditions
                         /\ \E j \in 1..Len(trace[k].body.conditions) :
                               StartsWith(trace[k].body.conditions[j].address,
                                          LightAddressPrefix(New))

\* The items a rule's array gets: for each item of the array as fetched, in
\* order, whose address is under the old light and whose address under the new
\* light is the address of no item of the array as fetched, a copy with only
\* the address changed.
IsOldItem(item) == StartsWith(item.address, LightAddressPrefix(Old))
AddressForNew(item) ==
    LightAddressPrefix(New) \o SubSeq(item.address, 3, Len(item.address))
ExpectedAdditions(fetched) ==
    LET wanted(item) == /\ IsOldItem(item)
                        /\ \A k \in 1..Len(fetched) : fetched[k].address # AddressForNew(item)
        chosen == SelectSeq(fetched, wanted)
    IN [j \in 1..Len(chosen) |-> [address |-> AddressForNew(chosen[j]), rest |-> chosen[j].rest]]

\* C5: for every rule written, the conditions (the actions) sent are the ones
\* fetched followed by one copy, on the new light's address with the suffix
\* and all other fields unchanged, of each item on the old light's address
\* whose new address no item of the FETCHED array has; a rule with no such item
\* is not written.
C5_RuleItemsDecidedAgainstOriginal ==
    \A k \in Events : \A g \in Events :
        (IsCall(k, "PUT", "rule") /\ g < k /\ IsCall(g, "GET", "rules") /\ trace[g].ok)
        => LET u == trace[k].body
               rule == trace[g].body[trace[k].id]
           IN /\ u.conditions = rule.conditions \o ExpectedAdditions(rule.conditions)
              /\ u.actions = rule.actions \o ExpectedAdditions(rule.actions)
              /\ ExpectedAdditions(rule.conditions) \o ExpectedAdditions(rule.actions) # <<>>

\* A rule was written with two added conditions on one and the same address
\* of the new light: the second was decided without regard to the first.
C5_Witness ==
    \E k \in Events :
        /\ IsCall(k, "PUT", "rule") /\ trace[k].ok
        /\ \E i, j \in 1..Len(trace[k].body.conditions) :
              /\ i < j
              /\ trace[k].body.conditions[i].address = trace[k].body.conditions[j].address
              /\ StartsWith(trace[k].body.conditions[i].address, LightAddressPrefix(New))
              /\ \E g \in Events :
                    /\ IsCall(g, "GET", "rules") /\ trace[g].ok
                    /\ ~itemAddressExists(trace[g].body[trace[k].id].conditions,
                                          trace[k].body.conditions[i].address)

\* C6: a second call of addLightReference with the same pair of GUIDs, on the
\* tree the first call produced, returns false and leaves the tree unchanged.
C6_ScannerIdempotent ==
    scanPc = "twice" => (ret2 = FALSE /\ tree2 = tree1)

\* Two calls were made and the first one changed the tree.
C6_Witness ==
    scanPc = "twice" /\ ret1 = TRUE /\ tree1 # tree0

\* Every sequence of the tree before the call that held the old reference and
\* not the new one is, after the call, the same sequence with one new
\* reference appended; before and after are the same node of the two trees.
RECURSIVE EverySequenceCompleted(_, _, _, _)
EverySequenceCompleted(before, after, oldLightRid, newLightRid) ==
    /\ (/\ before.t = "arr"
        /\ CountRefs(before.kids, oldLightRid) >= 1
        /\ CountRefs(before.kids, newLightRid) = 0)
       => /\ Len(after.kids) = Len(before.kids) + 1
          /\ after.kids[Len(after.kids)] = LightRef(newLightRid)
    /\ Len(after.kids) >= Len(before.kids)
    /\ \A k \in 1..Len(before.kids) :
          EverySequenceCompleted(before.kids[k], after.kids[k], oldLightRid, newLightRid)

\* C7: after one call of addLightReference every sequence anywhere in the
\* tree, at any depth and in any sibling position, that held at least one
\* reference to the old light and none to the new one has had exactly one
\* reference to the new light appended.
C7_ScannerCompleteAtAnyDepth ==
    scanPc \in {"once", "twice"} => EverySequenceCompleted(tree0, tree1, scanOld, scanNew)

\* The calls made on one group, and whether the run is past the group step.
GroupCalls(op, id) == {k \in Events : IsCallOn(k, op, "group", id)}
GroupStepDone == \E k \in Events : IsCall(k, "GET", "scenes")

\* C8: every group listed with the old light is fetched once; when the fetched
\* list lacks the new id the fetch is followed by the only write to that
\* group, whose list is the fetched list with the new id at its end; when the
\* fetched list holds the new id the group is not written; a group listed
\* without the old light is neither fetched by id nor written.
C8_GroupMigrator ==
    \A g \in Events :
        (IsCall(g, "GET", "groups") /\ trace[g].ok) =>
            LET groupsData == trace[g].body IN
            /\ \A k \in Events : trace[k].res = "group" => Includes(groupsData[trace[k].id], Old)
            /\ \A id \in 1..Len(groupsData) :
                  (Includes(groupsData[id], Old) /\ GroupStepDone)
                      => Cardinality(GroupCalls("GET", id)) = 1
            /\ \A k \in Events :
                  (IsCall(k, "GET", "group") /\ trace[k].ok) =>
                      LET id == trace[k].id
                          fetched == trace[k].body
                      IN IF Includes(fetched, New)
                         THEN GroupCalls("PUT", id) = {}
                         ELSE \/ k = Len(trace) /\ pc = "groupPut" /\ GroupCalls("PUT", id) = {}
                              \/ /\ GroupCalls("PUT", id) = {k + 1}
                                 /\ trace[k + 1].body = fetched \o <<New>>

\* A run that wrote one group and left alone another that it fetched with the
\* new id in its list.
C8_Witness ==
    /\ RunEnded
    /\ \E k \in Events : IsCall(k, "PUT", "group") /\ trace[k].ok
    /\ \E k \in Events : IsCall(k, "GET", "group") /\ trace[k].ok /\ Includes(trace[k].body, New)

\* The writes the re-run property is about; the state copy of a scene is not
\* one of them.
MigrationWrites ==
    {k \in Events : trace[k].op = "PUT" /\ trace[k].res \in {"group", "scene", "rule", "instance"}}
IsRerun == runNo >= 2 /\ RunStarted /\ prevRun = <<Old, New>>

\* C9: a run with the pair of lights of the run before it, on the bridge as
\* that run left it after calls that all succeeded, writes no group, no scene
\* light list, no rule and no behavior instance.
C9_RerunWritesNothing ==
    IsRerun => MigrationWrites = {}

\* A finished re-run that met the first run's work: a group fetched with both
\* lights in its list, and rules fetched with an address of the new light.
C9_Witness ==
    /\ IsRerun /\ RunEnded
    /\ \E k \in Events : /\ IsCall(k, "GET", "group") /\ trace[k].ok
                         /\ Includes(trace[k].body, Old) /\ Includes(trace[k].body, New)
    /\ \E k \in Events : /\ IsCall(k, "GET", "rules") /\ trace[k].ok
                         /\ \E r \in 1..Len(trace[k].body) :
                               \E j \in 1..Len(trace[k].body[r].conditions) :
                                  StartsWith(trace[k].body[r].conditions[j].address,
                                             LightAddressPrefix(New))

\* Only writes failed in the run; the writes of one kind that succeeded.
OnlyWritesFailed ==
    \A k \in Events : (RunStarted /\ ~trace[k].ok) => trace[k].op = "PUT"
Succeeded(res) == {k \in Events : IsCall(k, "PUT", res) /\ trace[k].ok}
SummaryEmitted ==
    \E k \in 1..Len(log) :
        /\ k + 3 = Len(log)
        /\ log[k].text = "replacement process complete"
        /\ log[k + 1] = [type |-> "info", text |-> "summary: updated instances",
                         n |-> Cardinality(Succeeded("instance"))]
        /\ log[k + 2] = [type |-> "info", text |-> "summary: processed rules",
                         n |-> Cardinality(Succeeded("rule"))]

\* C10: whichever writes fail (group, scene state, scene list, rule,
\* behavior instance, rename, startup configuration), a run that passed
\* validation goes on to its end (until it has ended it awaits a next call,
\* and each call adds to the trace), and ends with the completion summary carrying the number of rules
\* and the number of behavior instances it updated.
C10_RunEndsWithSummary ==
    /\ (RunStarted /\ ~RunEnded) => pc \in CallLabels
    /\ (RunEnded /\ OnlyWritesFailed) => SummaryEmitted

\* A run in which a rule write and another write failed ended with the summary.
C10_Witness ==
    /\ RunEnded /\ OnlyWritesFailed /\ SummaryEmitted
    /\ \E k \in Events : IsCall(k, "PUT", "rule") /\ ~trace[k].ok
    /\ Cardinality({k \in Events : ~trace[k].ok}) = MaxFailures

\* The writes to scenes, and the scenes the collection fetch listed.
IsSceneWrite(k) == trace[k].op = "PUT" /\ trace[k].res \in {"lightstate", "scene"}
SceneIds == UNION {1..Len(trace[g].body) : g \in {e \in Events : IsCall(e, "GET", "scenes")}}
SceneFetches(id) == {k \in Events : IsCallOn(k, "GET", "scene", id)}

\* C11: no scene write (state copy or light-list update) is issued before the
\* detail fetch of every scene of the collection has returned or failed, no
\* detail fetch follows a scene write, and every scene written is one whose
\* detail fetch returned.
C11_SceneWritesAfterDiscovery ==
    \A k \in Events :
        IsSceneWrite(k) =>
            /\ \A id \in SceneIds : \E g \in SceneFetches(id) : g < k
            /\ \A g \in Events : IsCall(g, "GET", "scene") => g < k
            /\ \E g \in SceneFetches(trace[k].id) : trace[g].ok

\* Two scenes were written, each after the detail fetch of both.
C11_Witness ==
    /\ RunEnded
    /\ \E i, j \in Events : /\ IsSceneWrite(i) /\ IsSceneWrite(j)
                            /\ trace[i].id = 1 /\ trace[j].id = 2
    /\ Cardinality(SceneIds) >= 2

\* The first pass is over.
DiscoveryOver ==
    /\ RunStarted /\ pc # "sceneGet"
    /\ \E g \in Events : IsCall(g, "GET", "scenes") /\ trace[g].ok

\* C12: a scene whose detail fetch failed is never written, and the failure
\* does not stop the first pass: when the pass is over every scene of the
\* collection has had its one detail fetch.
C12_SceneFetchFailureIsolated ==
    /\ \A g \in Events :
          (IsCall(g, "GET", "scene") /\ ~trace[g].ok)
              => \A k \in Events : IsSceneWrite(k) => trace[k].id # trace[g].id
    /\ DiscoveryOver => \A id \in SceneIds : Cardinality(SceneFetches(id)) = 1

\* The detail fetch of the first scene failed; the second scene was fetched
\* and written.
C12_Witness ==
    /\ RunEnded
    /\ \E g \in SceneFetches(1) : ~trace[g].ok
    /\ \E g \in SceneFetches(2) : trace[g].ok
    /\ \E k \in Events : IsSceneWrite(k) /\ trace[k].id = 2

\* The scenes the first pass selected, and the writes of one kind to a scene.
SelectedScenes == {loc.scenesWithOldLight[m].id : m \in 1..Len(loc.scenesWithOldLight)}
SceneWrites(res, id) == {k \in Events : IsCallOn(k, "PUT", res, id)}

\* C13: a scene is selected iff its fetched light list holds the old id or
\* its fetched lightstates have an entry for the old id.  For each selected
\* scene, with the fetched scene as snapshot: a state write for the new id is
\* issued iff the snapshot has a state for the old id, and carries that state;
\* a light-list write is issued iff the snapshot list holds the old id and not
\* the new one, and carries the snapshot list with the new id appended.
C13_SceneMigrator ==
    (RunEnded /\ DiscoveryOver) =>
        \A id \in SceneIds : \A g \in SceneFetches(id) :
            trace[g].ok =>
                LET snapshot == trace[g].body
                    hasState == snapshot.lightstates[Old] # Undefined
                    listNeedsNew == /\ CountOf(snapshot.lights, Old) > 0
                                    /\ CountOf(snapshot.lights, New) = 0
                IN /\ id \in SelectedScenes <=> (CountOf(snapshot.lights, Old) > 0 \/ hasState)
                   /\ SceneWrites("lightstate", id) # {} <=> hasState
                   /\ \A k \in SceneWrites("lightstate", id) :
                         trace[k].body = [light |-> New, state |-> snapshot.lightstates[Old]]
                   /\ SceneWrites("scene", id) # {} <=> listNeedsNew
                   /\ \A k \in SceneWrites("scene", id) :
                         trace[k].body = snapshot.lights \o <<New>>

\* The items a written array has beyond the array as fetched.
AddedItems(fetched, written) == SubSeq(written, Len(fetched) + 1, Len(written))
NoneAddedTwice(fetched, written) ==
    \A j \in 1..Len(AddedItems(fetched, written)) :
        \A i \in 1..Len(fetched) : fetched[i].address # AddedItems(fetched, written)[j].address

\* C14: no item is added to a rule's conditions (actions) on an address that
\* an item of the array as fetched already has; a rule to which nothing is
\* added is not written; so a run after a first run whose calls all succeeded
\* writes no rule and leaves the rules as it fetched them.
C14_RuleDedup ==
    /\ \A k \in Events : \A g \in Events :
          (IsCall(k, "PUT", "rule") /\ g < k /\ IsCall(g, "GET", "rules") /\ trace[g].ok)
          => LET u == trace[k].body
                 rule == trace[g].body[trace[k].id]
             IN /\ NoneAddedTwice(rule.conditions, u.conditions)
                /\ NoneAddedTwice(rule.actions, u.actions)
                /\ Len(AddedItems(rule.conditions, u.conditions))
                     + Len(AddedItems(rule.actions, u.actions)) > 0
    /\ IsRerun =>
          /\ \A k \in Events : ~IsCall(k, "PUT", "rule")
          /\ \A g \in Events : (IsCall(g, "GET", "rules") /\ trace[g].ok) => bRules = trace[g].body

\* A finished re-run fetched a rule that has, in its conditions and in its
\* actions, an item of the old light and the item of the new light on the
\* corresponding address.
C14_Witness ==
    /\ IsRerun /\ RunEnded
    /\ \E g \in Events :
          /\ IsCall(g, "GET", "rules") /\ trace[g].ok
          /\ \E r \in 1..Len(trace[g].body) :
                LET rule == trace[g].body[r] IN
                /\ \E i \in 1..Len(rule.conditions) :
                      /\ IsOldItem(rule.conditions[i])
                      /\ itemAddressExists(rule.conditions, AddressForNew(rule.conditions[i]))
                /\ \E i \in 1..Len(rule.actions) :
                      /\ IsOldItem(rule.actions[i])
                      /\ itemAddressExists(rule.actions, AddressForNew(rule.actions[i]))

\* An item whose address is '/lights/{old}/' and more.
UnderOldLight(item) ==
    Len(item.address) >= 3 /\ item.address[1] = "lights" /\ item.address[2] = Old
StartsAs(fetched, written) ==
    Len(written) >= Len(fetched) /\ SubSeq(written, 1, Len(fetched)) = fetched

\* C15: a rule with no condition and no action on an address under the old
\* light is not written.  The payload of a rule write has the conditions
\* array iff that array is not empty and the actions array iff that array is
\* not empty, and an array it has starts with all the items as fetched, in
\* their order, the added items after them.
C15_RuleWriteFrame ==
    \A k \in Events : \A g \in Events :
        (IsCall(k, "PUT", "rule") /\ g < k /\ IsCall(g, "GET", "rules") /\ trace[g].ok)
        => LET u == trace[k].body
               rule == trace[g].body[trace[k].id]
           IN /\ \/ \E i \in 1..Len(rule.conditions) : UnderOldLight(rule.conditions[i])
                 \/ \E i \in 1..Len(rule.actions) : UnderOldLight(rule.actions[i])
              /\ u.hasConditions <=> u.conditions # <<>>
              /\ u.hasActions <=> u.actions # <<>>
              /\ StartsAs(rule.conditions, u.conditions)
              /\ StartsAs(rule.actions, u.actions)

\* A rule without conditions was written with its actions only: the fetched
\* ones and one added.
C15_Witness ==
    /\ RunEnded
    /\ \E k \in Events : /\ IsCall(k, "PUT", "rule") /\ trace[k].ok
                         /\ ~trace[k].body.hasConditions /\ trace[k].body.hasActions
                         /\ Len(trace[k].body.actions) >= 2

\* A configuration with the new reference appended to each of its sequences,
\* at any depth, that holds the old reference and not the new one; nothing
\* else is changed.
RECURSIVE Augmented(_, _, _)
Augmented(tree, oldRid, newRid) ==
    LET kids == [k \in 1..Len(tree.kids) |-> Augmented(tree.kids[k], oldRid, newRid)] IN
    IF tree.t = "arr" /\ CountRefs(tree.kids, oldRid) >= 1 /\ CountRefs(tree.kids, newRid) = 0
    THEN [tree EXCEPT !.kids = Append(kids, LightRef(newRid))]
    ELSE [tree EXCEPT !.kids = kids]

InstanceCalls(op, id) == {k \in Events : IsCallOn(k, op, "instance", id)}
InstanceStepDone == RunStarted /\ pc \notin {"instances", "instanceGet", "instancePut"}
BothGuidsKnown == loc.oldLightV2Id # Undefined /\ loc.newLightV2Id # Undefined

\* C16: with both GUIDs known, every behavior instance whose listed
\* configuration, serialised, holds the old GUID is fetched once in detail;
\* a write follows iff the fetched configuration has a sequence that holds the
\* old reference and lacks the new one, and its body is the fetched
\* configuration with the new reference appended to each such sequence, all
\* else unchanged; an instance whose listed configuration does not hold the
\* old GUID is neither fetched in detail nor written.
C16_AutomationMigrator ==
    (RunStarted /\ BothGuidsKnown) =>
        \A g \in Events :
            (IsCall(g, "GET", "instances") /\ trace[g].ok) =>
                LET listed == trace[g].body IN
                /\ \A k \in Events :
                      trace[k].res = "instance"
                          => ContainsText(listed[trace[k].id].configuration, loc.oldLightV2Id)
                /\ \A id \in 1..Len(listed) :
                      (InstanceStepDone /\ ContainsText(listed[id].configuration, loc.oldLightV2Id))
                          => Cardinality(InstanceCalls("GET", id)) = 1
                /\ \A k \in Events :
                      (IsCall(k, "GET", "instance") /\ trace[k].ok) =>
                          LET id == trace[k].id
                              fetched == trace[k].body
                              expected == Augmented(fetched, loc.oldLightV2Id, loc.newLightV2Id)
                          IN IF expected = fetched
                             THEN InstanceCalls("PUT", id) = {}
                             ELSE \/ /\ k = Len(trace) /\ pc = "instancePut"
                                     /\ InstanceCalls("PUT", id) = {}
                                  \/ /\ InstanceCalls("PUT", id) = {k + 1}
                                     /\ trace[k + 1].body = expected

\* A sequence holds a reference {rtype: 'light', rid}.
HoldsRef(items, rid) ==
    \E k \in 1..Len(items) :
        items[k].t = "obj" /\ items[k].rtype = "light" /\ items[k].rid = rid

\* before and after are the same node of the tree before and after a call:
\* the node keeps its kind, its scalar value and its rid and rtype; an object
\* keeps its properties; a sequence without the old reference, or with the
\* new one, keeps its elements, each in its place.
RECURSIVE FrameKept(_, _, _, _)
FrameKept(before, after, oldRid, newRid) ==
    /\ after.t = before.t /\ after.v = before.v
    /\ after.rid = before.rid /\ after.rtype = before.rtype
    /\ Len(after.kids) >= Len(before.kids)
    /\ (before.t # "arr" \/ ~HoldsRef(before.kids, oldRid) \/ HoldsRef(before.kids, newRid))
          => Len(after.kids) = Len(before.kids)
    /\ \A k \in 1..Len(before.kids) : FrameKept(before.kids[k], after.kids[k], oldRid, newRid)

\* Some sequence of the tree has other elements after the call than before.
RECURSIVE SequenceChanged(_, _)
SequenceChanged(before, after) ==
    \/ before.t = "arr" /\ Len(after.kids) # Len(before.kids)
    \/ \E k \in 1..Len(before.kids) : SequenceChanged(before.kids[k], after.kids[k])

\* C17: addLightReference returns true iff the call changed at least one
\* sequence of the tree; a sequence that holds no reference to the old light,
\* or holds one to the new light already, keeps exactly its elements in their
\* order; no key and no scalar value of the tree is changed.
C17_ScannerFrameAndResult ==
    /\ scanPc \in {"once", "twice"} =>
          /\ FrameKept(tree0, tree1, scanOld, scanNew)
          /\ ret1 <=> SequenceChanged(tree0, tree1)
          /\ ret1 <=> tree1 # tree0
    /\ scanPc = "twice" =>
          /\ FrameKept(tree1, tree2, scanOld, scanNew)
          /\ ret2 <=> SequenceChanged(tree1, tree2)

\* One call changed the first of two sibling sequences and kept the second,
\* which held references to both lights.
C17_Witness ==
    /\ scanPc = "once" /\ ret1 = TRUE
    /\ tree0.t = "obj" /\ Len(tree0.kids) = 2
    /\ Len(tree1.kids[1].kids) = Len(tree0.kids[1].kids) + 1
    /\ HoldsRef(tree0.kids[2].kids, scanOld) /\ HoldsRef(tree0.kids[2].kids, scanNew)
    /\ tree1.kids[2] = tree0.kids[2]

\* The groups of a fetched collection that list the old light and come after
\* group id in the collection's order.
ListedAfter(groupsData, id) ==
    {j \in 1..Len(groupsData) : j > id /\ Includes(groupsData[j], Old)}
Least(S) == CHOOSE x \in S : \A y \in S : x <= y

\* C18: a failed fetch or write of one group is followed at once by the fetch
\* of the next group that lists the old light, or, after the last such group,
\* by the fetch of the scenes; a run past the group step has fetched every
\* group that lists the old light.
C18_GroupFailureIsolated ==
    \A g \in Events :
        (IsCall(g, "GET", "groups") /\ trace[g].ok) =>
            LET groupsData == trace[g].body IN
            /\ \A k \in Events :
                  (trace[k].res = "group" /\ ~trace[k].ok) =>
                      LET rest == ListedAfter(groupsData, trace[k].id) IN
                      IF k = Len(trace)
                      THEN pc = (IF rest = {} THEN "scenes" ELSE "groupGet")
                      ELSE IF rest = {}
                           THEN IsCall(k + 1, "GET", "scenes")
                           ELSE IsCallOn(k + 1, "GET", "group", Least(rest))
            /\ GroupStepDone =>
                  \A id \in 1..Len(groupsData) :
                      Includes(groupsData[id], Old) => GroupCalls("GET", id) # {}

\* A run in which a call on the first of two groups failed, the second group
\* was written, and the run went on to the scenes and the summary.
C18_Witness ==
    /\ RunEnded /\ SummaryEmitted
    /\ \E k \in Events :
          /\ trace[k].res = "group" /\ ~trace[k].ok
          /\ \E j \in Events :
                /\ j > k /\ IsCall(j, "PUT", "group") /\ trace[j].ok
                /\ trace[j].id > trace[k].id
    /\ \E k \in Events : IsCall(k, "GET", "scenes") /\ trace[k].ok

\* The renames issued on one bulb through one API.
Renames(res, id) == {k \in Events : IsCallOn(k, "PUT", res, id)}

\* C19: with N the old bulb's name in the fetched light snapshot, a run is in
\* exactly one of the two modes; in standard mode every rename of the old bulb
\* sets "N (old)" and every rename of the new bulb sets N, and a run that
\* reached the summary has renamed both bulbs on the legacy API and each bulb
\* with a known GUID on the modern API; in alternate mode the old bulb is not
\* renamed on either API and the new bulb's renames set "N (new)".
C19_RenamePolicy ==
    RunStarted =>
        LET N == allV1Lights[Old].name
            alt == Logged("alternate rename active")
            oldV2 == Lookup(v1ToV2IdMap, Old)
            newV2 == Lookup(v1ToV2IdMap, New)
            oldName == Append(N, "(old)")
            newName == IF alt THEN Append(N, "(new)") ELSE N
        IN /\ alt # Logged("standard rename process")
           /\ \A k \in Events :
                 IsCall(k, "PUT", "light") =>
                     \/ trace[k].id = Old /\ ~alt /\ trace[k].body = oldName
                     \/ trace[k].id = New /\ trace[k].body = newName
           /\ \A k \in Events :
                 IsCall(k, "PUT", "v2light") =>
                     \/ trace[k].id = oldV2 /\ ~alt /\ trace[k].body = oldName
                     \/ trace[k].id = newV2 /\ trace[k].body = newName
           /\ (RunEnded /\ SummaryEmitted) =>
                 /\ Cardinality(Renames("light", New)) = 1
                 /\ Cardinality(Renames("light", Old)) = (IF alt THEN 0 ELSE 1)
                 /\ newV2 # Undefined => Cardinality(Renames("v2light", newV2)) = 1
                 /\ oldV2 # Undefined =>
                       Cardinality(Renames("v2light", oldV2)) = (IF alt THEN 0 ELSE 1)

\* A run in alternate mode that reached the summary after renaming the new
\* bulb on both APIs, the old bulb having a GUID too.
C19_Witness ==
    /\ RunEnded /\ SummaryEmitted /\ Logged("alternate rename active")
    /\ Lookup(v1ToV2IdMap, Old) # Undefined
    /\ \E k \in Events : IsCallOn(k, "PUT", "light", New) /\ trace[k].ok
    /\ \E k \in Events : IsCall(k, "PUT", "v2light") /\ trace[k].ok

\* The positions in the trace of the calls, sleeps left aside, and the first
\* call after position k (0 when none was made yet).
CallsAfter(k) == {j \in Events : j > k /\ trace[j].op # "sleep"}
NextCall(k) == IF CallsAfter(k) = {} THEN 0 ELSE Least(CallsAfter(k))

\* C20: after a failed legacy rename of a bulb whose GUID is known the next
\* call is the modern rename of that bulb; after a failed rename of the old
\* bulb on either API the run goes on: until it has ended a call is awaited,
\* and when it has ended it renamed the new bulb on the legacy API and, its
\* GUID known, on the modern one, wrote the startup configuration when the old
\* bulb had one, and gave the summary.
C20_RenameFailureIsolated ==
    \A k \in Events :
        (trace[k].op = "PUT" /\ trace[k].res \in {"light", "v2light"} /\ ~trace[k].ok) =>
            LET oldV2 == Lookup(v1ToV2IdMap, Old)
                newV2 == Lookup(v1ToV2IdMap, New)
                ofOld == IF trace[k].res = "light" THEN trace[k].id = Old
                                                   ELSE trace[k].id = oldV2
                guid == IF ofOld THEN oldV2 ELSE newV2
                n == NextCall(k)
            IN /\ (trace[k].res = "light" /\ guid # Undefined) =>
                     IF n = 0 THEN pc = (IF ofOld THEN "renameOldV2" ELSE "renameNewV2")
                     ELSE IsCallOn(n, "PUT", "v2light", guid)
               /\ ofOld =>
                     IF RunEnded
                     THEN /\ \E j \in CallsAfter(k) : IsCallOn(j, "PUT", "light", New)
                          /\ newV2 # Undefined =>
                                \E j \in CallsAfter(k) : IsCallOn(j, "PUT", "v2light", newV2)
                          /\ allV1Lights[Old].startup # Undefined =>
                                \E j \in CallsAfter(k) : IsCall(j, "PUT", "config")
                          /\ SummaryEmitted
                     ELSE pc \in {"renameOldV2", "renameNewV1", "renameNewV2", "startupPut"}

\* A run in which both renames of the old bulb failed and that renamed the
\* new bulb on both APIs, wrote the startup configuration and ended with the
\* summary.
C20_Witness ==
    /\ RunEnded /\ SummaryEmitted
    /\ \E k \in Events : IsCallOn(k, "PUT", "light", Old) /\ ~trace[k].ok
    /\ \E k \in Events :
          IsCallOn(k, "PUT", "v2light", Lookup(v1ToV2IdMap, Old)) /\ ~trace[k].ok
    /\ \E k \in Events : IsCallOn(k, "PUT", "light", New) /\ trace[k].ok
    /\ \E k \in Events : IsCall(k, "PUT", "v2light") /\ trace[k].ok
    /\ \E k \in Events : IsCall(k, "PUT", "config") /\ trace[k].ok

\* The log holds an entry of the given type and text.
LoggedAs(type, text) == \E k \in 1..Len(log) : log[k].type = type /\ log[k].text = text

\* What the run does for a bulb without an entry in v1ToV2IdMap: no rename on
\* the modern API with an absent GUID is ever issued; once the run is past the
\* bulb's legacy rename the skip of the modern one is logged as a warning and
\* the next call is the one of the following step (for the old bulb the
\* legacy rename of the new bulb; for the new bulb the startup write when the
\* old bulb has a startup configuration, else none, the run having ended with
\* the summary).
UnmappedBulbHandled(bulb, which) ==
    /\ \A k \in Events : IsCall(k, "PUT", "v2light") => trace[k].id # Undefined
    /\ (RunEnded /\ SummaryEmitted) => Cardinality(Renames("light", bulb)) = 1
    /\ \A k \in Events :
          IsCallOn(k, "PUT", "light", bulb) =>
              /\ LoggedAs("warning", which)
              /\ LET n == NextCall(k) IN
                 IF n = 0
                 THEN IF bulb = Old THEN pc = "renameNewV1"
                      ELSE IF allV1Lights[Old].startup # Undefined THEN pc = "startupPut"
                           ELSE RunEnded /\ SummaryEmitted
                 ELSE IF bulb = Old THEN IsCallOn(n, "PUT", "light", New)
                      ELSE IsCall(n, "PUT", "config")

\* C21 as stated, for either bulb in either mode.
C21_UnmappedBulb_AsStated ==
    RunStarted =>
        /\ Lookup(v1ToV2IdMap, Old) = Undefined => UnmappedBulbHandled(Old, "V2 rename old skipped")
        /\ Lookup(v1ToV2IdMap, New) = Undefined => UnmappedBulbHandled(New, "V2 rename new skipped")

\* C21: for a bulb that the run renames (the new bulb, and in standard mode
\* the old bulb) and that has no entry in the identifier map, no modern-API
\* rename is issued and a warning is logged, its legacy-API rename is still
\* issued, and the run continues with the following steps.
C21_UnmappedBulb ==
    RunStarted =>
        /\ (Lookup(v1ToV2IdMap, Old) = Undefined /\ ~Logged("alternate rename active"))
              => UnmappedBulbHandled(Old, "V2 rename old skipped")
        /\ Lookup(v1ToV2IdMap, New) = Undefined => UnmappedBulbHandled(New, "V2 rename new skipped")
        /\ Logged("alternate rename active") =>
              /\ Renames("light", Old) = {}
              /\ ~Logged("V2 rename old skipped")

\* A run in standard mode, neither bulb in the map, that renamed both on the
\* legacy API only, logged both warnings and reached the summary.
C21_Witness ==
    /\ RunEnded /\ SummaryEmitted /\ ~Logged("alternate rename active")
    /\ Lookup(v1ToV2IdMap, Old) = Undefined /\ Lookup(v1ToV2IdMap, New) = Undefined
    /\ \E k \in Events : IsCallOn(k, "PUT", "light", Old)
    /\ \E k \in Events : IsCallOn(k, "PUT", "light", New)
    /\ LoggedAs("warning", "V2 rename old skipped") /\ LoggedAs("warning", "V2 rename new skipped")
    /\ \A k \in Events : ~IsCall(k, "PUT", "v2light")

\* The writes of the startup configuration, and the part of the carryover
\* that concerns them: each goes to the new bulb with the old bulb's mode, and
\* a run that reached the summary made one iff the old bulb exposes a mode.
StartupWrites == {k \in Events : IsCall(k, "PUT", "config")}
StartupWrittenIffExposed ==
    LET startup == allV1Lights[Old].startup IN
    /\ \A k \in StartupWrites :
          trace[k].id = New /\ startup # Undefined /\ trace[k].body = startup
    /\ (RunEnded /\ SummaryEmitted) =>
          Cardinality(StartupWrites) = (IF startup # Undefined THEN 1 ELSE 0)

\* What log() emitted about the skip of the startup step, in the log box or
\* on the console.
StartupSkipReports ==
    {log[k] : k \in {j \in 1..Len(log) :
                        log[j].text \in {"startup config not found", "skipping startup config"}}}
    \cup {console[k] : k \in {j \in 1..Len(console) :
                        console[j].text \in {"startup config not found", "skipping startup config"}}}

\* C22: a write to lights/{new}/config is issued iff the old bulb's snapshot
\* exposes a startup mode, and it carries exactly that mode; when the old bulb
\* exposes none, no such write is issued and the skip is reported by an
\* informational note only, never by a warning.
C22_StartupCarryover ==
    RunStarted =>
        /\ StartupWrittenIffExposed
        /\ allV1Lights[Old].startup = Undefined =>
              /\ \A e \in StartupSkipReports : e.type = "info"
              /\ (RunEnded /\ SummaryEmitted) => LoggedAs("info", "skipping startup config")

\* The answer to the latest fetch of one of the two light collections.
FetchedBody(res) ==
    LET k == CHOOSE k \in Events : IsCall(k, "GET", res) /\ \A j \in Events : IsCall(j, "GET", res) => j <= k
    IN trace[k].body
\* The fetch succeeded on a legacy answer that is a collection of lights.
FetchSucceeded ==
    step2Shown /\ \A n \in DOMAIN allV1Lights : "name" \in DOMAIN allV1Lights[n]

\* A modern light's back-reference path ends in '/lights/n'.
RefersTo(light, n) ==
    Len(light.id_v1) >= 2 /\ SubSeq(light.id_v1, Len(light.id_v1) - 1, Len(light.id_v1)) = <<"lights", n>>

\* The map gives the GUID of every light present in both collections, and has
\* no key for a legacy light without a modern counterpart.
MapsEveryPair ==
    FetchSucceeded =>
        LET v2 == FetchedBody("v2lights").data IN
        \A n \in DOMAIN allV1Lights :
            IF \E i \in 1..Len(v2) : RefersTo(v2[i], n)
            THEN n \in DOMAIN v1ToV2IdMap
                 /\ \E i \in 1..Len(v2) : RefersTo(v2[i], n) /\ v1ToV2IdMap[n] = v2[i].id
            ELSE n \notin DOMAIN v1ToV2IdMap

\* C23: after a successful fetch, v1ToV2IdMap[n] is the GUID of the modern
\* light that refers to legacy light n, for every light present in both
\* collections; a light present in only one collection has no key in the map:
\* the keys of the map are legacy light ids.
C23_IdentifierReconciler ==
    FetchSucceeded =>
        /\ MapsEveryPair
        /\ DOMAIN v1ToV2IdMap \subseteq DOMAIN allV1Lights
        /\ \A n \in DOMAIN v1ToV2IdMap : v1ToV2IdMap[n] \notin {Undefined}

\* An answer to GET lights is a collection of lights; an answer to GET
\* resource/light carries a data array.
IsLightCollection(body) ==
    body # Null /\ \A n \in DOMAIN body : "name" \in DOMAIN body[n]
HasDataArray(body) == "data" \in DOMAIN body

\* One of the two fetches of the latest fetch operation failed or was
\* answered with something else than the expected container.
FetchWentWrong ==
    \E k \in Events :
        \/ IsCall(k, "GET", "lights") /\ (~trace[k].ok \/ ~IsLightCollection(trace[k].body))
        \/ IsCall(k, "GET", "v2lights") /\ (~trace[k].ok \/ ~HasDataArray(trace[k].body))
FetchOver == pc \notin {"off", "fetchV1", "fetchV2"}

FetchLeftNothing ==
    /\ allV1Lights = Null /\ v1ToV2IdMap = Null
    /\ apiV1BaseUrl = "" /\ apiV2BaseUrl = ""
    /\ ~step2Shown

\* C24: when a fetch operation in which one of the two light fetches failed
\* or returned a malformed container has ended, the light snapshot and the
\* identifier map are null, both base URLs are empty and the selection step
\* is not shown; and in every state a non-null identifier map comes with a
\* non-null light snapshot.
C24_FetchFailureLeavesNothing ==
    /\ (FetchOver /\ FetchWentWrong) => FetchLeftNothing
    /\ v1ToV2IdMap # Null => allV1Lights # Null

\* The selection a start request must be rejected on.
InvalidSelection ==
    \/ selectedOldLightV1Id = "" \/ selectedNewLightV1Id = ""
    \/ selectedOldLightV1Id = selectedNewLightV1Id
    \/ allV1Lights = Null
    \/ selectedOldLightV1Id \notin DOMAIN allV1Lights
    \/ selectedNewLightV1Id \notin DOMAIN allV1Lights
    \/ v1ToV2IdMap = Null

\* A step that only adds one error to the log box: no call is made or sent,
\* no control changes, the handler is where it was.
OnlyLogsAnError ==
    /\ trace' = trace /\ inFlight' = inFlight /\ pc' = pc /\ loc' = loc
    /\ startDisabled' = startDisabled /\ controlsDisabled' = controlsDisabled
    /\ fetchDisabled' = fetchDisabled /\ startBtnText' = startBtnText
    /\ bLights' = bLights /\ bV2Lights' = bV2Lights /\ bGroups' = bGroups
    /\ bScenes' = bScenes /\ bRules' = bRules /\ bInstances' = bInstances
    /\ Len(log') = Len(log) + 1 /\ SubSeq(log', 1, Len(log)) = log
    /\ log'[Len(log')].type = "error"

PutLabels ==
    {"groupPut", "sceneStatePut", "sceneListPut", "rulePut", "instancePut",
     "renameOldV1", "renameOldV2", "renameNewV1", "renameNewV2", "startupPut"}

Puts == {k \in Events : trace[k].op = "PUT"}

\* The write at j is the first write after the one at i.
SuccessivePuts(i, j) ==
    /\ i \in Puts /\ j \in Puts /\ i < j
    /\ \A k \in Puts : ~(i < k /\ k < j)

\* sleep(ms) ran between the events at i and at j.
SleptBetween(i, j) == \E k \in Events : i < k /\ k < j /\ trace[k].op = "sleep"

\* C27: between any two successive writes of a run there is at least one
\* delay, whether the earlier write returned or failed, the two writes of one
\* scene included.
C27_DelayBetweenWrites ==
    \A i, j \in Events : SuccessivePuts(i, j) => SleptBetween(i, j)

\* The calls recorded in the trace (the sleeps left out).
Calls == {k \in Events : trace[k].op # "sleep"}

\* The step a recorded call belongs to: 0 the fetch of the lights, 1 groups,
\* 2 scene discovery, 3 scene writes, 4 rules, 5 behavior instances, 6 rename
\* of the old bulb, 7 rename of the new bulb, 8 startup configuration.
StepOf(call) ==
    LET res == call.res IN
    CASE res \in {"lights", "v2lights"} -> 0
      [] res \in {"groups", "group"} -> 1
      [] res = "scenes" -> 2
      [] res = "scene" -> IF call.op = "GET" THEN 2 ELSE 3
      [] res = "lightstate" -> 3
      [] res \in {"rules", "rule"} -> 4
      [] res \in {"instances", "instance"} -> 5
      [] res = "light" -> IF call.id = Old THEN 6 ELSE 7
      [] res = "v2light" -> IF call.id = Lookup(v1ToV2IdMap, Old) THEN 6 ELSE 7
      [] res = "config" -> 8

\* An entry of the trace that is a call.
IsACall(entry) == entry.op # "sleep"

\* The step of the call awaited at a label.
StepOfLabel(label) ==
    CASE label \in {"fetchV1", "fetchV2"} -> 0
      [] label \in {"groups", "groupGet", "groupPut"} -> 1
      [] label \in {"scenes", "sceneGet"} -> 2
      [] label \in {"sceneStatePut", "sceneListPut"} -> 3
      [] label \in {"rules", "rulePut"} -> 4
      [] label \in {"instances", "instanceGet", "instancePut"} -> 5
      [] label \in {"renameOldV1", "renameOldV2"} -> 6
      [] label \in {"renameNewV1", "renameNewV2"} -> 7
      [] label = "startupPut" -> 8

\* C28: the calls of a run occur in the order groups, scene discovery, scene
\* writes, rules, behavior instances, rename of the old bulb, rename of the
\* new bulb, startup configuration: no answered call belongs to a later step
\* than a call answered after it or than the call in flight; and once the
\* summary is logged the run is over, with no call in flight.
C28_FixedStepOrder ==
    /\ LET calls == SelectSeq(trace, IsACall) IN
       /\ \A k \in 1..(Len(calls) - 1) : StepOf(calls[k]) <= StepOf(calls[k + 1])
       /\ \A r \in 1..Len(inFlight) :
              calls # <<>> => StepOf(calls[Len(calls)]) <= StepOfLabel(inFlight[r])
    /\ SummaryEmitted => (RunEnded /\ inFlight = <<>>)

\* A run that reached the summary after calls of each of the eight steps.
C28_Witness ==
    /\ RunEnded /\ SummaryEmitted
    /\ \A s \in 1..8 : \E k \in Calls : StepOf(trace[k]) = s

\* The rename writes the run has issued on a bulb, through either API.
RenameWrites(bulb) ==
    Renames("light", bulb) \cup
    (IF Lookup(v1ToV2IdMap, bulb) # Undefined
     THEN Renames("v2light", Lookup(v1ToV2IdMap, bulb)) ELSE {})

\* The log box holds an entry of type error.
ErrorLogged == \E k \in 1..Len(log) : log[k].type = "error"

\* C29: a rename whose target name equals the bulb's current name (the name in
\* the fetched snapshot) is skipped, for the old bulb and for the new bulb
\* alike: no rename write is issued for that bulb on either API, and a run in
\* which no call failed logs no error.
C29_RenameToSameNameSkipped ==
    RunStarted =>
        /\ loc.oldBulbTargetName = allV1Lights[Old].name => RenameWrites(Old) = {}
        /\ loc.newBulbTargetName = allV1Lights[New].name => RenameWrites(New) = {}
        /\ (\A k \in Calls : trace[k].ok) => ~ErrorLogged

\* The positions of the log box that hold the transport's envelope warning.
EnvelopeWarnings ==
    {k \in 1..Len(log) : log[k].text \in {"API V1 Warning", "API V2 Warning"}}

\* The entries of the log box with a text.
Entries(text) == {k \in 1..Len(log) : log[k].text = text}

\* C30: when a write of the run is answered with a 2xx status and a body that
\* carries an error envelope, the transport logs a warning (log box and
\* console) and returns; the step goes on as after a success: the entry after
\* the warning is the step's success message, the call counts as returned, the
\* summary counts every rule and instance write reported as updated, and a run
\* in which no call threw ends with the summary and without an error entry.
C30_EnvelopeIsOnlyAWarning ==
    RunStarted =>
        /\ Cardinality(EnvelopeWarnings) = MaxWarnings - warnsLeft
        /\ \A k \in EnvelopeWarnings :
              /\ k < Len(log) /\ log[k + 1].type = "success"
              /\ \E j \in 1..Len(console) : console[j] = log[k]
        /\ Cardinality(Entries("rule updated")) = Cardinality(Succeeded("rule"))
        /\ Cardinality(Entries("instance updated")) = Cardinality(Succeeded("instance"))
        /\ RunEnded =>
              /\ Logged("summary: processed rules") => SummaryEmitted
              /\ (\A k \in Calls : trace[k].ok) => (SummaryEmitted /\ ~ErrorLogged)

\* A run that ended with the summary after a rule write and an instance write
\* were each answered with an error envelope and counted as updated.
C30_Witness ==
    /\ RunEnded /\ SummaryEmitted /\ warnsLeft = 0
    /\ \E k \in EnvelopeWarnings : log[k].text = "API V1 Warning" /\ log[k + 1].text = "rule updated"
    /\ \E k \in EnvelopeWarnings : log[k].text = "API V2 Warning" /\ log[k + 1].text = "instance updated"

\* The answer to the call the start handler awaits: it returns or fails.
RunCall ==
    \/ FetchGroups \/ GetGroup \/ PutGroup
    \/ FetchScenes \/ GetScene \/ PutSceneState \/ PutSceneList
    \/ FetchRules \/ PutRule
    \/ FetchInstances \/ GetInstance \/ PutInstance
    \/ RenameOldV1 \/ RenameOldV2 \/ RenameNewV1 \/ RenameNewV2
    \/ PutStartup

\* One page load on a bridge that fails at most one call, in which every call
\* of the run is eventually answered.
InitLive == \E b \in Bridges : InitPage(b, 1, 0)
SpecLive == InitLive /\ [][Next]_vars /\ WF_vars(RunCall)

\* The start button carries the label of the finally block.
Finished == RunEnded /\ startBtnText = "Process Finished"

\* No call of the run is issued a second time (same method, resource and id).
NoCallRetried ==
    \A i \in Calls : \A j \in Calls :
        (i < j /\ trace[i].op = trace[j].op /\ trace[i].res = trace[j].res) =>
            trace[i].id # trace[j].id

\* A step taken while the run is under way is the answer to the awaited call.
RunOnlyAdvances == (RunStarted /\ ~RunEnded) => (RunCall /\ Len(trace') > Len(trace))

\* C31: every call being answered in the end, a run that passed validation
\* reaches its finished state, the start button labelled 'Process Finished',
\* after the summary or after the fatal-error log; on the way no call is
\* issued twice, and nothing but the answer to the awaited call can happen:
\* the run can be neither cancelled nor suspended.
C31_RunReachesFinished ==
    /\ RunStarted ~> Finished
    /\ [](RunEnded => (startBtnText = "Process Finished"
                        /\ (SummaryEmitted \/ Logged("process stopped"))))
    /\ [](RunStarted => NoCallRetried)
    /\ [][RunOnlyAdvances]_vars

\* A run that finished after the fatal-error log: the fetch of the scene
\* collection failed after the groups had been gone through.
C31_Witness ==
    /\ Finished /\ Logged("process stopped") /\ ~SummaryEmitted
    /\ \E k \in Events : IsCall(k, "GET", "scenes") /\ ~trace[k].ok
    /\ \E k \in Events : IsCall(k, "GET", "groups") /\ trace[k].ok

\* The bulb ids a recorded call of the run carries, in its address or its body.
IdsOf(k) ==
    LET e == trace[k] IN
    CASE e.op = "PUT" /\ e.res \in {"light", "config"} -> {e.id}
      [] e.op = "PUT" /\ e.res = "lightstate" -> {e.body.light}
      [] e.op = "PUT" /\ e.res \in {"group", "scene"} -> {e.body[Len(e.body)]}
      [] OTHER -> {}

\* The selection and the rename mode stay as they are, the controls disabled.
SelectionFrozen ==
    /\ UNCHANGED <<selectedOldLightV1Id, selectedNewLightV1Id, altRenameChecked>>
    /\ startDisabled' /\ controlsDisabled'
    /\ RunStarted'

\* C32: once a run has passed validation the start button, both selectors and
\* the checkbox are disabled, in every later state, finished or not; no step
\* changes the selection or the rename mode, so the run works with the values
\* it was started with: every bulb id its writes carry is the selected old or
\* new bulb and its rename mode is the checkbox's; and the page load sees at
\* most one run (one fetch of the groups, with which every run begins).
C32_ControlsStayDisabled ==
    /\ [](RunStarted =>
            /\ startDisabled /\ controlsDisabled
            /\ Old # New /\ {Old, New} \subseteq DOMAIN allV1Lights
            /\ loc.useAltRename = altRenameChecked
            /\ Logged("alternate rename active") = altRenameChecked
            /\ \A k \in Calls : IdsOf(k) \subseteq {Old, New}
            /\ Cardinality({k \in Events : IsCall(k, "GET", "groups")}) <= 1)
    /\ [][RunStarted => SelectionFrozen]_vars

\* A run in alternate mode has finished, after writes that carry the new
\* bulb's id, and the controls are disabled.
C32_Witness ==
    /\ RunEnded /\ startDisabled /\ controlsDisabled /\ altRenameChecked
    /\ \E k \in Calls : IsCall(k, "PUT", "group") /\ IdsOf(k) = {New}
    /\ \E k \in Calls : IsCallOn(k, "PUT", "light", New)

\* written is the list read, element by element, with more elements after it
\* or none (StartsAs), and a written tree is the tree read with every sequence
\* of it so extended: no node is removed, replaced or moved, and only
\* sequences grow.
RECURSIVE AppendOnly(_, _)
AppendOnly(read, written) ==
    /\ written.t = read.t /\ written.v = read.v
    /\ written.rid = read.rid /\ written.rtype = read.rtype
    /\ Len(written.kids) >= Len(read.kids)
    /\ read.t # "arr" => Len(written.kids) = Len(read.kids)
    /\ \A k \in 1..Len(read.kids) : AppendOnly(read.kids[k], written.kids[k])

\* The answered read of the resource a write at k goes to.
ReadFor(k, res, id) == {g \in Events : g < k /\ IsCallOn(g, "GET", res, id) /\ trace[g].ok}

\* C33: the migration only appends.  Every list a run writes was read by the
\* run before, and the list written starts with all the elements of the list
\* as read, in their order, the added elements after them: the lights of a
\* group, the lights of a scene, the conditions and the actions of a rule, and
\* every sequence of a behavior instance's configuration.  So no write removes
\* or replaces a reference to the old light.
C33_MigrationOnlyAppends ==
    \A k \in Puts :
        LET e == trace[k] IN
        /\ e.res = "group" =>
              \E g \in ReadFor(k, "group", e.id) : StartsAs(trace[g].body, e.body)
        /\ e.res = "scene" =>
              \E g \in ReadFor(k, "scene", e.id) : StartsAs(trace[g].body.lights, e.body)
        /\ e.res = "rule" =>
              \E g \in ReadFor(k, "rules", 0) :
                 /\ e.body.hasConditions => StartsAs(trace[g].body[e.id].conditions, e.body.conditions)
                 /\ e.body.hasActions => StartsAs(trace[g].body[e.id].actions, e.body.actions)
        /\ e.res = "instance" =>
              \E g \in ReadFor(k, "instance", e.id) : AppendOnly(trace[g].body, e.body)

\* A run has written a group, a scene's light list, a rule and a behavior
\* instance, each longer than it was read.
C33_Witness ==
    /\ \E k \in Puts : trace[k].res = "group" /\ Includes(trace[k].body, Old)
    /\ \E k \in Puts : trace[k].res = "scene" /\ Includes(trace[k].body, Old)
    /\ \E k \in Puts : trace[k].res = "rule" /\ trace[k].body.hasConditions
                       /\ \E i \in 1..Len(trace[k].body.conditions) :
                             UnderOldLight(trace[k].body.conditions[i])
    /\ \E k \in Puts : /\ trace[k].res = "instance"
                       /\ \E g \in ReadFor(k, "instance", trace[k].id) :
                             SequenceChanged(trace[g].body, trace[k].body)

\* C34: every request of one fetch of the lights goes to the host and carries
\* the username, in its URL and in its hue-application-key header, that the
\* inputs held at the click that started the fetch, whatever is typed into
\* the inputs while the fetch is in flight.
C34_FetchKeepsClickedCredentials ==
    \A i \in 1..Len(sent) :
        /\ HostOf(sent[i].url) = clicked[1]
        /\ IF IsV2(sent[i].url)
           THEN sent[i].key = clicked[2]
           ELSE UserOf(sent[i].url) = clicked[2]

====
